---- MODULE Spec2Model ----
(***************************************************************************)
(* A model of the patchwork hypertext store and scheduler.                 *)
(*                                                                         *)
(* Part 1: Datastore and TransactionAccumulator (pure_hch/datastore.py).   *)
(* Every operation is an operator from a store state to a result record    *)
(* [S, ret, exc]: the store state after the call, the returned value, and  *)
(* the name of the exception raised ("none" when the call returns).        *)
(* A store state S is [db, tx, next]: the base Datastore, the open         *)
(* TransactionAccumulator (NoTx when there is none) and the next address   *)
(* (Address.location is a fresh uuid: modelled by a counter).              *)
(***************************************************************************)
EXTENDS Integers, Sequences, FiniteSets, TLC

VARIABLES db, tx, next_address, db0, last, tokens, log, calls

(* The scheduler: Scheduler.active_contexts, Scheduler.pending_contexts,   *)
(* the memoizer's cache, and a record of the last scheduler call.          *)
VARIABLES active_contexts, pending_contexts, memoizer, event

(* The RootQuestionSession that is open (None when there is none): its     *)
(* current_context, root_answer_promise and root_answer.                   *)
VARIABLES session
(* The resolve_action call that is in progress (None when there is none):  *)
(* its starting_context and action, the successor the action returned, the *)
(* transaction, and the queues and sets of its automation loop.            *)
VARIABLES run

vars == <<db, tx, next_address, db0, last, tokens, log, calls,
          active_contexts, pending_contexts, memoizer, event, session, run>>

-----------------------------------------------------------------------------
(* Bounds of the model.                                                    *)

MaxAddr == 3
MaxTokens == 2
MaxList == 3
NumTexts == 2
MaxCalls == 6
MaxSteps == 6
MaxAddress == 14
MaxActs == 4

-----------------------------------------------------------------------------
(* Python dictionaries as functions with a finite domain.                  *)

EmptyMap == [k \in {} |-> 0]
Has(f, k) == k \in DOMAIN f
Put(f, k, v) == (k :> v) @@ f
Del(f, k) == [x \in DOMAIN f \ {k} |-> f[x]]
Update(f, g) == g @@ f
Get(f, k, default) == IF Has(f, k) THEN f[k] ELSE default

NoAddr == 0
NoTx == [open |-> FALSE]

-----------------------------------------------------------------------------
(* Hypertext values and their str(), the key of content addressing.        *)

Lit(s) == [isLink |-> FALSE, text |-> s, link |-> NoAddr]
Link(a) == [isLink |-> TRUE, text |-> "", link |-> a]

RawHypertext(chunks) == [kind |-> "raw", chunks |-> chunks]

AddressStr(a) == "Address(" \o ToString(a) \o ")"

RECURSIVE JoinChunks(_)
JoinChunks(chunks) ==
    IF chunks = <<>> THEN ""
    ELSE (IF Head(chunks).isLink THEN AddressStr(Head(chunks).link)
          ELSE Head(chunks).text) \o JoinChunks(Tail(chunks))

RawToStr(h) == JoinChunks(h.chunks)

Workspace(q, a, w, s, subs) ==
    [kind |-> "ws", question_link |-> q, answer_promise |-> a,
     final_workspace_promise |-> w, scratchpad_link |-> s,
     subquestions |-> subs, predecessor_link |-> NoAddr]

RECURSIVE SubquestionsStr(_)
SubquestionsStr(subs) ==
    IF subs = <<>> THEN ""
    ELSE "(" \o AddressStr(Head(subs)[1]) \o ", " \o AddressStr(Head(subs)[2])
         \o ", " \o AddressStr(Head(subs)[3]) \o ")"
         \o (IF Tail(subs) = <<>> THEN "" ELSE ", ")
         \o SubquestionsStr(Tail(subs))

WorkspaceToStr(w) ==
    (IF w.predecessor_link # NoAddr
     THEN "Predecessor:\n  " \o AddressStr(w.predecessor_link) \o "\n" ELSE "")
    \o "Question:\n  " \o AddressStr(w.question_link)
    \o "\nScratchpad:\n  " \o AddressStr(w.scratchpad_link)
    \o "\nSubquestions:\n  [" \o SubquestionsStr(w.subquestions) \o "]"

Str(content) ==
    IF content.kind = "raw" THEN RawToStr(content) ELSE WorkspaceToStr(content)

-----------------------------------------------------------------------------
(* Results of calls.                                                       *)

Ok(S, ret) == [S |-> S, ret |-> ret, exc |-> "none"]
Raise(S, exc) == [S |-> S, ret |-> NoAddr, exc |-> exc]

(* A local variable of the source: Op is the code that follows the       *)
(* assignment and v the value assigned.  As in the source, the value is    *)
(* computed before the code that follows is run.                           *)
With(v, Op(_)) == CASE {v} # {} -> Op(v)

EmptyDb ==
    [content |-> EmptyMap, canonical_addresses |-> EmptyMap,
     promises |-> EmptyMap, aliases |-> EmptyMap]

(* TransactionAccumulator.__init__.  additional_promisees is a dict, whose *)
(* keys commit() visits in the order of their insertion: additional_order  *)
(* lists them in that order.                                               *)
NewTx ==
    [open |-> TRUE, new_promises |-> EmptyMap, resolved_promises |-> {},
     additional_promisees |-> EmptyMap, additional_order |-> <<>>,
     new_content |-> EmptyMap,
     new_canonical_addresses |-> EmptyMap, new_aliases |-> EmptyMap]

-----------------------------------------------------------------------------
(* Datastore.                                                              *)

DbCanonicalize(S, a) ==
    IF Has(S.db.aliases, a) THEN Ok(S, S.db.aliases[a])
    ELSE IF Has(S.db.content, a) \/ Has(S.db.promises, a) THEN Ok(S, a)
    ELSE Raise(S, "KeyError")

DbDereference(S, a) ==
    With(DbCanonicalize(S, a), LAMBDA c :
      IF c.exc # "none" THEN c
      ELSE IF Has(S.db.content, c.ret) THEN Ok(S, S.db.content[c.ret])
      ELSE Raise(S, "KeyError"))

DbIsFulfilled(S, a) ==
    With(DbCanonicalize(S, a), LAMBDA c :
      IF c.exc # "none" THEN c ELSE Ok(S, Has(S.db.content, c.ret)))

DbMakePromise(S) ==
    Ok([S EXCEPT !.db.promises = Put(@, S.next, <<>>), !.next = @ + 1], S.next)

DbRegisterPromisee(S, a, promisee) ==
    IF ~Has(S.db.promises, a) THEN Raise(S, "KeyError")
    ELSE Ok([S EXCEPT !.db.promises[a] = Append(@, promisee)], NoAddr)

DbResolvePromise(S, a, content) ==
    IF ~Has(S.db.promises, a) THEN Raise(S, "AssertionError")
    ELSE
      With(Str(content), LAMBDA key :
      With(IF Has(S.db.canonical_addresses, key)
           THEN [S EXCEPT !.db.aliases = Put(@, a, S.db.canonical_addresses[key])]
           ELSE [S EXCEPT !.db.content = Put(@, a, content),
                          !.db.canonical_addresses = Put(@, key, a)],
           LAMBDA staged :
             Ok([staged EXCEPT !.db.promises = Del(@, a)], S.db.promises[a])))

DbInsert(S, content) ==
    IF Has(S.db.canonical_addresses, Str(content))
    THEN Ok(S, S.db.canonical_addresses[Str(content)])
    ELSE With(DbMakePromise(S), LAMBDA p :
           Ok(DbResolvePromise(p.S, p.ret, content).S, p.ret))

-----------------------------------------------------------------------------
(* TransactionAccumulator.  Its __init__ does not call Datastore.__init__, *)
(* so the object has no attributes content, canonical_addresses, promises  *)
(* or aliases of its own: reading one raises AttributeError.               *)

TxCanonicalize(S, a) ==
    IF Has(S.tx.new_aliases, a) THEN Ok(S, S.tx.new_aliases[a])
    ELSE IF Has(S.db.aliases, a) THEN Ok(S, S.db.aliases[a])
    ELSE IF Has(S.tx.new_content, a) \/ Has(S.tx.new_promises, a) THEN Ok(S, a)
    ELSE IF Has(S.db.content, a) \/ Has(S.db.promises, a) THEN Ok(S, a)
    ELSE Raise(S, "KeyError")

TxDereference(S, a) ==
    With(TxCanonicalize(S, a), LAMBDA c :
      IF c.exc # "none" THEN c
      ELSE IF Has(S.tx.new_content, c.ret) THEN Ok(S, S.tx.new_content[c.ret])
      ELSE IF Has(S.db.content, c.ret) THEN Ok(S, S.db.content[c.ret])
      ELSE Raise(S, "KeyError"))

TxIsFulfilled(S, a) ==
    With(TxCanonicalize(S, a), LAMBDA c :
      IF c.exc # "none" THEN c
      ELSE Ok(S, Has(S.tx.new_content, c.ret) \/ Has(S.db.content, c.ret)))

TxMakePromise(S) ==
    Ok([S EXCEPT !.tx.new_promises = Put(@, S.next, <<>>), !.next = @ + 1], S.next)

TxRegisterPromisee(S, a, promisee) ==
    IF a \in S.tx.resolved_promises THEN Raise(S, "ValueError")
    ELSE IF Has(S.tx.new_promises, a)
    THEN Ok([S EXCEPT !.tx.new_promises[a] = Append(@, promisee)], NoAddr)
    ELSE IF Has(S.tx.additional_promisees, a)
    THEN Ok([S EXCEPT !.tx.additional_promisees[a] = Append(@, promisee)], NoAddr)
    ELSE IF Has(S.db.promises, a)
    THEN Ok([S EXCEPT !.tx.additional_promisees = Put(@, a, <<promisee>>),
                      !.tx.additional_order = Append(@, a)], NoAddr)
    ELSE Raise(S, "ValueError")

(* Lines 140-146: the content is staged as an alias of its canonical       *)
(* address, or as new content of the promise's own address.                *)
TxStageContent(S, a, content) ==
    With(Str(content), LAMBDA key :
      IF Has(S.db.canonical_addresses, key)
      THEN [S EXCEPT !.tx.new_aliases = Put(@, a, S.db.canonical_addresses[key])]
      ELSE IF Has(S.tx.new_canonical_addresses, key)
      THEN [S EXCEPT !.tx.new_aliases = Put(@, a, S.tx.new_canonical_addresses[key])]
      ELSE [S EXCEPT !.tx.new_content = Put(@, a, content),
                     !.tx.new_canonical_addresses = Put(@, key, a)])

(* A mutant of lines 148-151 that deletes the promise from the base at     *)
(* once, as Datastore.resolve_promise does.                                *)
TxTakeBasePromisees_DeletesNow(S, a) ==
    With(S.db.promises[a] \o Get(S.tx.additional_promisees, a, <<>>), LAMBDA promisees :
      Ok([S EXCEPT !.db.promises = Del(@, a),
                   !.tx.resolved_promises = @ \cup {a}], promisees))

(* Lines 148-151: promisees is the base's own list object, and extend()    *)
(* appends the overlay's additions to it in place.                         *)
TxTakeBasePromisees(S, a) ==
    With(S.db.promises[a] \o Get(S.tx.additional_promisees, a, <<>>), LAMBDA promisees :
      Ok([S EXCEPT !.db.promises[a] = promisees,
                   !.tx.resolved_promises = @ \cup {a}], promisees))

(* Lines 152-154: "del self.promises[address]" reads an attribute the      *)
(* accumulator does not have.                                              *)
TxTakeNewPromisees(S, a) == Raise(S, "AttributeError")

TxResolvePromise(S, a, content) ==
    IF ~(Has(S.tx.new_promises, a) \/ Has(S.db.promises, a))
    THEN Raise(S, "AssertionError")
    ELSE IF Has(S.db.promises, a)
    THEN TxTakeBasePromisees(TxStageContent(S, a, content), a)
    ELSE TxTakeNewPromisees(TxStageContent(S, a, content), a)

(* Line 158: "self.canonical_addresses" is read first.                     *)
TxInsert(S, content) == Raise(S, "AttributeError")

(* Mutants of commit(): one that forgets to merge the new aliases, one     *)
(* that replaces the base content by the new content.                      *)
TxCommit_NoAliases(S, order) ==
    LET t == S.tx
        p1 == Update(S.db.promises, t.new_promises)
        p2 == [a \in DOMAIN p1 |-> p1[a] \o Get(t.additional_promisees, a, <<>>)]
        p3 == [a \in DOMAIN p2 \ t.resolved_promises |-> p2[a]]
    IN Ok([S EXCEPT
             !.db.promises = p3,
             !.db.content = Update(@, t.new_content),
             !.db.canonical_addresses = Update(@, t.new_canonical_addresses)], NoAddr)

TxCommit_ReplaceContent(S, order) ==
    LET t == S.tx
        p1 == Update(S.db.promises, t.new_promises)
        p2 == [a \in DOMAIN p1 |-> p1[a] \o Get(t.additional_promisees, a, <<>>)]
        p3 == [a \in DOMAIN p2 \ t.resolved_promises |-> p2[a]]
    IN Ok([S EXCEPT
             !.db.promises = p3,
             !.db.content = t.new_content,
             !.db.canonical_addresses = Update(@, t.new_canonical_addresses),
             !.db.aliases = Update(@, t.new_aliases)], NoAddr)

(* Lines 173-174: the promisee lists of the base are extended in the order *)
(* in which the overlay first recorded their addresses; an address the     *)
(* base no longer holds raises KeyError and the lists extended before it   *)
(* stay extended.                                                          *)
RECURSIVE ExtendPromisees(_, _, _)
ExtendPromisees(promises, additional_promisees, order) ==
    IF order = <<>> THEN [exc |-> "none", promises |-> promises]
    ELSE IF ~Has(promises, Head(order)) THEN [exc |-> "KeyError", promises |-> promises]
    ELSE ExtendPromisees([promises EXCEPT ![Head(order)] =
                                             @ \o additional_promisees[Head(order)]],
                         additional_promisees, Tail(order))

(* Lines 178-179: the resolved promises are deleted in the order in which  *)
(* the set is iterated; one the base no longer holds raises KeyError and   *)
(* those deleted before it stay deleted.                                   *)
RECURSIVE DeletePromises(_, _)
DeletePromises(promises, order) ==
    IF order = <<>> THEN [exc |-> "none", promises |-> promises]
    ELSE IF ~Has(promises, Head(order)) THEN [exc |-> "KeyError", promises |-> promises]
    ELSE DeletePromises(Del(promises, Head(order)), Tail(order))

(* The orders in which a Python set of addresses can be iterated.  An      *)
(* Address hashes by its uuid1 (lines 12-16), which differs from run to    *)
(* run, so every enumeration of the set is possible.                       *)
RECURSIVE SetOrders(_)
SetOrders(addresses) ==
    IF addresses = {} THEN {<<>>}
    ELSE UNION {{<<a>> \o rest : rest \in SetOrders(addresses \ {a})} : a \in addresses}

(* Lines 171-179: commit() merges in six steps and is not atomic: a        *)
(* KeyError of the second step leaves the new promises merged, one of the  *)
(* last step leaves everything merged but the deletions not made.  order   *)
(* is the order in which line 178 iterates resolved_promises.              *)
TxCommit(S, order) ==
    With(ExtendPromisees(Update(S.db.promises, S.tx.new_promises),
                         S.tx.additional_promisees, S.tx.additional_order),
         LAMBDA extended :
      IF extended.exc # "none"
      THEN Raise([S EXCEPT !.db.promises = extended.promises], extended.exc)
      ELSE
      With(DeletePromises(extended.promises, order),
           LAMBDA deleted :
      With([S EXCEPT
              !.db.promises = deleted.promises,
              !.db.content = Update(@, S.tx.new_content),
              !.db.canonical_addresses = Update(@, S.tx.new_canonical_addresses),
              !.db.aliases = Update(@, S.tx.new_aliases)],
           LAMBDA merged :
        IF deleted.exc # "none" THEN Raise(merged, deleted.exc)
        ELSE Ok(merged, NoAddr))))

-----------------------------------------------------------------------------
(* The store driven through its interface: calls on the base Datastore     *)
(* while no transaction is open, calls on the TransactionAccumulator while *)
(* one is, then commit() or dropping the accumulator.                      *)
(*   db0     the base as it was when the open transaction was created      *)
(*   last    the last call: its name, arguments, result and exception      *)
(*   tokens  the next promisee value (every registration passes a new one) *)
(*   log     what became of each promisee value                            *)
(*   calls   the number of calls made so far                               *)

St == [db |-> db, tx |-> tx, next |-> next_address]

Addresses == 1..MaxAddr
Texts == {"t" \o ToString(i) : i \in 1..NumTexts}
Contents == {RawHypertext(<<Lit(t)>>) : t \in Texts}

Call(op, a, r) ==
    [op |-> op, a |-> IF r.exc = "none" THEN a ELSE NoAddr, ret |-> r.ret, exc |-> r.exc]
NoCall(op) == [op |-> op, a |-> NoAddr, ret |-> NoAddr, exc |-> "none"]

EmptyLog ==
    [registered_at |-> EmptyMap, committed |-> {}, open |-> {}, discarded |-> {},
     returned |-> EmptyMap, tx_returned |-> <<>>, returned_by |-> {}]

RECURSIVE CountIn(_, _)
CountIn(seq, x) ==
    IF seq = <<>> THEN 0
    ELSE (IF Head(seq) = x THEN 1 ELSE 0) + CountIn(Tail(seq), x)

Range(seq) == {seq[i] : i \in DOMAIN seq}

AddReturned(returned, seq) ==
    [t \in DOMAIN returned \cup Range(seq) |-> Get(returned, t, 0) + CountIn(seq, t)]

StoreInit ==
    /\ db = EmptyDb
    /\ tx = NoTx
    /\ next_address = 1
    /\ db0 = EmptyDb
    /\ last = NoCall("init")
    /\ tokens = 1
    /\ log = EmptyLog
    /\ calls = 0
    /\ active_contexts = {}
    /\ pending_contexts = <<>>
    /\ memoizer = EmptyMap
    /\ event = [op |-> "init", exc |-> "none"]
    /\ session = [none |-> TRUE]
    /\ run = [none |-> TRUE]

SetStore(S) ==
    /\ db' = S.db
    /\ tx' = S.tx
    /\ next_address' = S.next

Count ==
    /\ calls < MaxCalls
    /\ calls' = calls + 1
    /\ UNCHANGED <<active_contexts, pending_contexts, memoizer, event, session, run>>

MakePromise ==
    /\ Count
    /\ ~tx.open
    /\ next_address <= MaxAddr
    /\ LET r == DbMakePromise(St) IN
       /\ SetStore(r.S)
       /\ last' = Call("make_promise", NoAddr, r)
    /\ UNCHANGED <<db0, tokens, log>>

RegisterPromisee(a) ==
    /\ Count
    /\ ~tx.open
    /\ tokens <= MaxTokens
    /\ LET r == DbRegisterPromisee(St, a, tokens) IN
       /\ SetStore(r.S)
       /\ last' = Call("register_promisee", a, r)
       /\ log' = IF r.exc = "none"
                 THEN [log EXCEPT !.registered_at = Put(@, tokens, a),
                                  !.committed = @ \cup {tokens}]
                 ELSE log
       /\ tokens' = IF r.exc = "none" THEN tokens + 1 ELSE tokens
    /\ UNCHANGED db0

ResolvePromise(a, content) ==
    /\ Count
    /\ ~tx.open
    /\ LET r == DbResolvePromise(St, a, content) IN
       /\ SetStore(r.S)
       /\ last' = Call("resolve_promise", a, r)
       /\ log' = IF r.exc = "none"
                 THEN [log EXCEPT !.returned = AddReturned(@, r.ret),
                                  !.returned_by = @ \cup {<<t, a>> : t \in Range(r.ret)}]
                 ELSE log
    /\ UNCHANGED <<db0, tokens>>

Insert(content) ==
    /\ Count
    /\ ~tx.open
    /\ next_address <= MaxAddr
    /\ LET r == DbInsert(St, content) IN
       /\ SetStore(r.S)
       /\ last' = Call("insert", NoAddr, r)
    /\ UNCHANGED <<db0, tokens, log>>

Begin ==
    /\ Count
    /\ ~tx.open
    /\ tx' = NewTx
    /\ db0' = db
    /\ last' = NoCall("begin")
    /\ UNCHANGED <<db, next_address, tokens, log>>

MakePromiseInTx ==
    /\ Count
    /\ tx.open
    /\ next_address <= MaxAddr
    /\ LET r == TxMakePromise(St) IN
       /\ SetStore(r.S)
       /\ last' = Call("tx.make_promise", NoAddr, r)
    /\ UNCHANGED <<db0, tokens, log>>

RegisterPromiseeInTx(a) ==
    /\ Count
    /\ tx.open
    /\ tokens <= MaxTokens
    /\ LET r == TxRegisterPromisee(St, a, tokens) IN
       /\ SetStore(r.S)
       /\ last' = Call("tx.register_promisee", a, r)
       /\ log' = IF r.exc = "none"
                 THEN [log EXCEPT !.registered_at = Put(@, tokens, a),
                                  !.open = @ \cup {tokens}]
                 ELSE log
       /\ tokens' = IF r.exc = "none" THEN tokens + 1 ELSE tokens
    /\ UNCHANGED db0

ResolvePromiseInTx(a, content) ==
    /\ Count
    /\ tx.open
    /\ Len(Get(db.promises, a, <<>>)) + Len(Get(tx.additional_promisees, a, <<>>)) <= MaxList
    /\ Len(log.tx_returned) <= MaxList
    /\ LET r == TxResolvePromise(St, a, content) IN
       /\ SetStore(r.S)
       /\ last' = Call("tx.resolve_promise", a, r)
       /\ log' = IF r.exc = "none"
                 THEN [log EXCEPT !.tx_returned = @ \o r.ret,
                                  !.returned_by = @ \cup {<<t, a>> : t \in Range(r.ret)}]
                 ELSE log
    /\ UNCHANGED <<db0, tokens>>

InsertInTx(content) ==
    /\ Count
    /\ tx.open
    /\ next_address <= MaxAddr
    /\ LET r == TxInsert(St, content) IN
       /\ SetStore(r.S)
       /\ last' = Call("tx.insert", NoAddr, r)
    /\ UNCHANGED <<db0, tokens, log>>

ReadInTx(a) ==
    /\ Count
    /\ tx.open
    /\ LET r == TxDereference(St, a) IN
       /\ SetStore(r.S)
       /\ last' = Call("tx.dereference", a, Raise(r.S, r.exc))
    /\ UNCHANGED <<db0, tokens, log>>

Commit ==
    /\ Count
    /\ tx.open
    /\ \E order \in SetOrders(tx.resolved_promises) :
         LET r == TxCommit(St, order) IN
         /\ db' = r.S.db
         /\ next_address' = r.S.next
         /\ last' = Call("commit", NoAddr, r)
    /\ tx' = NoTx
    /\ log' = [log EXCEPT !.committed = @ \cup log.open, !.open = {},
                          !.returned = AddReturned(@, log.tx_returned),
                          !.tx_returned = <<>>]
    /\ UNCHANGED <<db0, tokens>>

Discard ==
    /\ Count
    /\ tx.open
    /\ tx' = NoTx
    /\ last' = NoCall("discard")
    /\ log' = [log EXCEPT !.discarded = @ \cup log.open, !.open = {},
                          !.tx_returned = <<>>]
    /\ UNCHANGED <<db, next_address, db0, tokens>>

Next ==
    \/ MakePromise
    \/ \E a \in Addresses : RegisterPromisee(a)
    \/ \E a \in Addresses, c \in Contents : ResolvePromise(a, c)
    \/ \E c \in Contents : Insert(c)
    \/ Begin
    \/ MakePromiseInTx
    \/ \E a \in Addresses : RegisterPromiseeInTx(a)
    \/ \E a \in Addresses, c \in Contents : ResolvePromiseInTx(a, c)
    \/ \E c \in Contents : InsertInTx(c)
    \/ \E a \in Addresses : ReadInTx(a)
    \/ Commit
    \/ Discard

Spec == StoreInit /\ [][Next]_vars

-----------------------------------------------------------------------------
(* Views used by the properties.                                           *)

SameResult(r1, r2) == r1.exc = r2.exc /\ (r1.exc = "none" => r1.ret = r2.ret)

(* An address is pending when it has a promisees list, resolved when it    *)
(* holds content or is an alias; in a transaction the overlay is consulted *)
(* first and a staged resolution hides the base's promisees list.          *)
PendingInBase(S, a) == Has(S.db.promises, a)
ResolvedInBase(S, a) == Has(S.db.content, a) \/ Has(S.db.aliases, a)
PendingInView(S, a) ==
    \/ Has(S.tx.new_promises, a)
    \/ Has(S.db.promises, a) /\ a \notin S.tx.resolved_promises
ResolvedInView(S, a) ==
    \/ Has(S.tx.new_content, a) \/ Has(S.tx.new_aliases, a)
    \/ ResolvedInBase(S, a)

FulfilledInBase(S, a) ==
    LET r == DbIsFulfilled(S, a) IN r.exc = "none" /\ r.ret

KnownAddresses == 1..(next_address - 1)

-----------------------------------------------------------------------------
(* C2: no call on an open TransactionAccumulator changes the base          *)
(* Datastore: while the transaction is open the base equals the base as it *)
(* was when the transaction was created, promisee lists included.          *)
C2_BaseUntouchedBeforeCommit == tx.open => db = db0

(* C3: a commit() makes the base answer canonicalize, is_fulfilled and     *)
(* dereference for every address as the overlay-then-base view answered    *)
(* just before; every promise pending afterwards has the promisees the     *)
(* base had before the transaction followed by the overlay's additions     *)
(* (a promise made in the transaction: its overlay list); and the pending  *)
(* promises are the base's and the overlay's minus the resolved ones.      *)
C3_CommitStep ==
    (last'.op = "commit" /\ last'.exc = "none") =>
      /\ \A a \in 1..MaxAddr :
           /\ SameResult(DbCanonicalize(St', a), TxCanonicalize(St, a))
           /\ SameResult(DbIsFulfilled(St', a), TxIsFulfilled(St, a))
           /\ SameResult(DbDereference(St', a), TxDereference(St, a))
      /\ DOMAIN db'.promises =
           (DOMAIN db.promises \cup DOMAIN tx.new_promises) \ tx.resolved_promises
      /\ \A a \in DOMAIN db'.promises :
           db'.promises[a] =
             (IF Has(db0.promises, a) THEN db0.promises[a] ELSE tx.new_promises[a])
             \o Get(tx.additional_promisees, a, <<>>)
      /\ \A k \in DOMAIN db'.canonical_addresses :
           db'.canonical_addresses[k] =
             (IF Has(tx.new_canonical_addresses, k)
              THEN tx.new_canonical_addresses[k] ELSE db.canonical_addresses[k])
      /\ DOMAIN db'.canonical_addresses =
           DOMAIN db.canonical_addresses \cup DOMAIN tx.new_canonical_addresses

C3_CommitRefinesView == [][C3_CommitStep]_vars

(* C3 witness: a commit just merged an overlay that had resolved a promise *)
(* of the base to an alias and left another promise pending.               *)
C3_Witness ==
    /\ last.op = "commit" /\ last.exc = "none"
    /\ db # db0
    /\ \E a \in DOMAIN db.aliases : Has(db0.promises, a)
    /\ db.promises # EmptyMap

(* C5: no address is both pending and resolved, in the base and in the     *)
(* overlay-then-base view of an open transaction.                          *)
C5_PendingXorResolved ==
    \A a \in 1..MaxAddr :
      /\ ~(PendingInBase(St, a) /\ ResolvedInBase(St, a))
      /\ tx.open => ~(PendingInView(St, a) /\ ResolvedInView(St, a))

(* C6: resolution is monotonic in the base: an address for which           *)
(* is_fulfilled holds keeps it through every later call.                   *)
C6_FulfilledStep ==
    \A a \in 1..MaxAddr : FulfilledInBase(St, a) => FulfilledInBase(St', a)

C6_FulfilledForever == [][C6_FulfilledStep]_vars

(* C6 witness: an address fulfilled before a transaction is still          *)
(* fulfilled after that transaction resolved another promise and           *)
(* committed.                                                              *)
C6_Witness ==
    /\ last.op = "commit" /\ last.exc = "none"
    /\ \E a \in 1..MaxAddr : FulfilledInBase([St EXCEPT !.db = db0], a)
    /\ \E b \in 1..MaxAddr :
         /\ FulfilledInBase(St, b)
         /\ ~FulfilledInBase([St EXCEPT !.db = db0], b)

(* C7: a promisees list is consumed exactly once: no promisee is returned  *)
(* twice; a promisee registered only in a discarded transaction is         *)
(* returned by no later resolution; and once a promise is resolved in the  *)
(* base, each promisee whose registration on it was committed has been     *)
(* returned once, by the resolution of that promise.                       *)
C7_PromiseesConsumedOnce ==
    \A t \in DOMAIN log.registered_at :
      LET n == Get(log.returned, t, 0) + CountIn(log.tx_returned, t) IN
      /\ n <= 1
      /\ t \in log.discarded => n = 0
      /\ \A a \in 1..MaxAddr : <<t, a>> \in log.returned_by => a = log.registered_at[t]
      /\ (t \in log.committed /\ ~PendingInBase(St, log.registered_at[t]))
            => Get(log.returned, t, 0) = 1

(* C10: insert of content that is already stored returns the canonical     *)
(* address and changes nothing: two inserts of the same content in a row   *)
(* return the same address, on the base and on an open transaction.        *)
InsertOn(S, content) ==
    IF S.tx.open THEN TxInsert(S, content) ELSE DbInsert(S, content)

C10_InsertTwice ==
    \A c \in Contents :
      LET r1 == InsertOn(St, c)
          r2 == InsertOn(r1.S, c)
      IN /\ r1.exc = "none" /\ r2.exc = "none"
         /\ r2.ret = r1.ret
         /\ r2.S = r1.S

(* The calls of the store on whichever object is current: the accumulator  *)
(* while a transaction is open, the base Datastore otherwise.              *)
ResolveOn(S, a, content) ==
    IF S.tx.open THEN TxResolvePromise(S, a, content) ELSE DbResolvePromise(S, a, content)
RegisterOn(S, a, promisee) ==
    IF S.tx.open THEN TxRegisterPromisee(S, a, promisee)
    ELSE DbRegisterPromisee(S, a, promisee)
CanonicalizeOn(S, a) == IF S.tx.open THEN TxCanonicalize(S, a) ELSE DbCanonicalize(S, a)
DereferenceOn(S, a) == IF S.tx.open THEN TxDereference(S, a) ELSE DbDereference(S, a)
IsFulfilledOn(S, a) == IF S.tx.open THEN TxIsFulfilled(S, a) ELSE DbIsFulfilled(S, a)

(* What the current object holds: the overlay first, the base second.      *)
PendingOn(S, a) ==
    IF S.tx.open THEN Has(S.tx.new_promises, a) \/ Has(S.db.promises, a)
    ELSE Has(S.db.promises, a)
CanonicalOn(S, content) ==
    (IF Has(S.db.canonical_addresses, Str(content))
     THEN {S.db.canonical_addresses[Str(content)]} ELSE {})
    \cup (IF S.tx.open /\ Has(S.tx.new_canonical_addresses, Str(content))
          THEN {S.tx.new_canonical_addresses[Str(content)]} ELSE {})
AliasesOn(S) == IF S.tx.open THEN Update(S.db.aliases, S.tx.new_aliases) ELSE S.db.aliases
ContentOn(S) == IF S.tx.open THEN Update(S.db.content, S.tx.new_content) ELSE S.db.content

(* C11: resolve_promise(A, x) of a pending promise A with content x that   *)
(* is already canonical under an address returns, records the alias from A *)
(* to that address, stores no second copy of x, and afterwards A is        *)
(* fulfilled and dereference(A) is dereference of that address; on the     *)
(* base and on an open transaction.                                        *)
C11_ResolveToAlias ==
    \A a \in Addresses, c \in Contents :
      (PendingOn(St, a) /\ CanonicalOn(St, c) # {}) =>
        LET r == ResolveOn(St, a, c) IN
        /\ r.exc = "none"
        /\ Has(AliasesOn(r.S), a)
        /\ AliasesOn(r.S)[a] \in CanonicalOn(St, c)
        /\ ContentOn(r.S) = ContentOn(St)
        /\ IsFulfilledOn(r.S, a) = Ok(r.S, TRUE)
        /\ DereferenceOn(r.S, a) = DereferenceOn(r.S, AliasesOn(r.S)[a])

(* C12: every alias points at an address that holds content and is not     *)
(* itself aliased, in the base and in the view of an open transaction; and *)
(* canonicalize of an address it knows returns an address that holds       *)
(* content or is a pending promise.                                        *)
AliasesCanonical(S) ==
    /\ \A a \in DOMAIN AliasesOn(S) :
          /\ Has(ContentOn(S), AliasesOn(S)[a])
          /\ ~Has(AliasesOn(S), AliasesOn(S)[a])
    /\ \A a \in Addresses :
          CanonicalizeOn(S, a).exc = "none" =>
            \/ Has(ContentOn(S), CanonicalizeOn(S, a).ret)
            \/ PendingOn(S, CanonicalizeOn(S, a).ret)

C12_AliasesCanonical ==
    /\ AliasesCanonical([St EXCEPT !.tx = NoTx])
    /\ tx.open => AliasesCanonical(St)

(* C13: stored content is immutable in the base: once dereference(A)       *)
(* returns a content, every later dereference(A) returns that content; and *)
(* while dereference(A) fails for an address the base knows, the address   *)
(* is a pending promise.                                                   *)
Base == [St EXCEPT !.tx = NoTx]

C13_Step ==
    \A a \in Addresses :
      /\ DbDereference(Base, a).exc = "none" =>
            /\ DbDereference(Base', a).exc = "none"
            /\ DbDereference(Base', a).ret = DbDereference(Base, a).ret
      /\ (DbCanonicalize(Base, a).exc = "none" /\ DbDereference(Base, a).exc # "none")
            => Has(db.promises, DbCanonicalize(Base, a).ret)

C13_ContentImmutable == [][C13_Step]_vars

(* C14: register_promisee on a promise that is already resolved (it holds  *)
(* content or is an alias, in the base or in the overlay) raises and       *)
(* leaves the base and the overlay unchanged.                              *)
ResolvedOn(S, a) == Has(ContentOn(S), a) \/ Has(AliasesOn(S), a)

C14_RegisterOnResolvedFails ==
    \A a \in Addresses :
      ResolvedOn(St, a) =>
        /\ RegisterOn(St, a, tokens).exc # "none"
        /\ RegisterOn(St, a, tokens).S = St

-----------------------------------------------------------------------------
(***************************************************************************)
(* Part 2: hypertext, contexts, actions and the scheduler (patchwork/).    *)
(* The calls below take the store as a state S = [db, tx, next]: the base  *)
(* Datastore when S.tx is NoTx, the TransactionAccumulator otherwise.      *)
(***************************************************************************)

None == [none |-> TRUE]
IsNone(x) == "none" \in DOMAIN x

Canonicalize(S, a) == IF S.tx.open THEN TxCanonicalize(S, a) ELSE DbCanonicalize(S, a)
Dereference(S, a) == IF S.tx.open THEN TxDereference(S, a) ELSE DbDereference(S, a)
IsFulfilled(S, a) == IF S.tx.open THEN TxIsFulfilled(S, a) ELSE DbIsFulfilled(S, a)

(* patchwork/datastore.py: the accumulator the scheduler imports.  Where   *)
(* the accumulator of pure_hch/datastore.py reads an attribute it does not *)
(* have, this one reads the overlay's own map.                             *)
PwTakeNewPromisees(S, a) ==
    Ok([S EXCEPT !.tx.new_promises = Del(@, a)], S.tx.new_promises[a])

PwResolvePromise(S, a, content) ==
    IF ~(Has(S.tx.new_promises, a) \/ Has(S.db.promises, a))
    THEN Raise(S, "AssertionError")
    ELSE IF Has(S.db.promises, a)
    THEN TxTakeBasePromisees(TxStageContent(S, a, content), a)
    ELSE PwTakeNewPromisees(TxStageContent(S, a, content), a)

(* An insert that stores the content under a new address without looking  *)
(* it up.                                                                  *)
PwInsert_Fresh(S, content) ==
    With(TxMakePromise(S), LAMBDA p :
      Ok(PwResolvePromise(p.S, p.ret, content).S, p.ret))

PwInsert(S, content) ==
    With(Str(content), LAMBDA key :
      IF Has(S.tx.new_canonical_addresses, key)
      THEN Ok(S, S.tx.new_canonical_addresses[key])
      ELSE IF Has(S.db.canonical_addresses, key)
      THEN Ok(S, S.db.canonical_addresses[key])
      ELSE With(TxMakePromise(S), LAMBDA p :
             Ok(PwResolvePromise(p.S, p.ret, content).S, p.ret)))

get_promisees(S, a) ==
    IF S.tx.open
    THEN Get(S.db.promises, a, <<>>) \o Get(S.tx.additional_promisees, a, <<>>)
         \o Get(S.tx.new_promises, a, <<>>)
    ELSE Get(S.db.promises, a, <<>>)

MakePromiseOn(S) == IF S.tx.open THEN TxMakePromise(S) ELSE DbMakePromise(S)
ResolvePromiseOn(S, a, content) ==
    IF S.tx.open THEN PwResolvePromise(S, a, content) ELSE DbResolvePromise(S, a, content)
RegisterPromiseeOn(S, a, promisee) ==
    IF S.tx.open THEN TxRegisterPromisee(S, a, promisee)
    ELSE DbRegisterPromisee(S, a, promisee)
InsertIn(S, content) == IF S.tx.open THEN PwInsert(S, content) ELSE DbInsert(S, content)

-----------------------------------------------------------------------------
(* hypertext.py: links() and visit_unlocked_region.                        *)

RECURSIVE RawLinks(_, _)
RawLinks(chunks, seen) ==
    IF chunks = <<>> THEN <<>>
    ELSE IF Head(chunks).isLink /\ Head(chunks).link \notin seen
    THEN <<Head(chunks).link>> \o RawLinks(Tail(chunks), seen \cup {Head(chunks).link})
    ELSE RawLinks(Tail(chunks), seen)

RECURSIVE SubquestionLinks(_)
SubquestionLinks(subs) ==
    IF subs = <<>> THEN <<>>
    ELSE <<Head(subs)[1], Head(subs)[2], Head(subs)[3]>> \o SubquestionLinks(Tail(subs))

(* A mutant of Links in which the two promises of a workspace are entries. *)
Links_WithPromises(page) ==
    IF page.kind = "raw" THEN RawLinks(page.chunks, {})
    ELSE <<page.question_link, page.scratchpad_link, page.answer_promise,
           page.final_workspace_promise>>
         \o SubquestionLinks(page.subquestions)

Links(page) ==
    IF page.kind = "raw" THEN RawLinks(page.chunks, {})
    ELSE (IF page.predecessor_link # NoAddr THEN <<page.predecessor_link>> ELSE <<>>)
         \o <<page.question_link, page.scratchpad_link>>
         \o SubquestionLinks(page.subquestions)

Min(a, b) == IF a < b THEN a ELSE b

Zip(xs, ys) == [i \in 1..Min(Len(xs), Len(ys)) |-> <<xs[i], ys[i]>>]

RECURSIVE Unseen(_, _)
Unseen(pairs, seen) ==
    IF pairs = <<>> THEN <<>>
    ELSE IF Head(pairs) \in seen THEN Unseen(Tail(pairs), seen)
    ELSE <<Head(pairs)>> \o Unseen(Tail(pairs), seen \cup {Head(pairs)})

(* Lines 18-27: the while loop.  loop holds frontier, seen and the links   *)
(* yielded so far, and exc the exception of the last iteration.            *)
RECURSIVE VisitFrontier(_, _, _)
VisitFrontier(loop, S, unlocked_locations) ==
    IF loop.exc # "none" \/ loop.frontier = <<>>
    THEN (IF loop.exc # "none" THEN Raise(S, loop.exc) ELSE Ok(S, loop.visited))
    ELSE VisitFrontier(
           IF Head(loop.frontier)[1] \notin unlocked_locations
           THEN [loop EXCEPT !.frontier = Tail(@)]
           ELSE
             With(Dereference(S, Head(loop.frontier)[1]), LAMBDA my_page :
             With(Dereference(S, Head(loop.frontier)[2]), LAMBDA your_page :
               IF my_page.exc # "none" THEN [loop EXCEPT !.exc = my_page.exc]
               ELSE IF your_page.exc # "none" THEN [loop EXCEPT !.exc = your_page.exc]
               ELSE
                 With(Unseen(Zip(Links(my_page.ret), Links(your_page.ret)), loop.seen),
                      LAMBDA new :
                        [frontier |-> Tail(loop.frontier) \o new,
                         seen |-> loop.seen \cup Range(new),
                         visited |-> Append(loop.visited, Head(loop.frontier)[2]),
                         exc |-> "none"]))),
           S, unlocked_locations)

visit_unlocked_region(template_link, workspace_link, S, unlocked_locations) ==
    VisitFrontier([frontier |-> << <<template_link, workspace_link>> >>,
                   seen |-> { <<template_link, workspace_link>> },
                   visited |-> <<>>, exc |-> "none"],
                  S, unlocked_locations)

-----------------------------------------------------------------------------
(* Texts with line breaks are sequences of lines, so that textwrap.indent  *)
(* can be computed: "a\nb" is <<"a", "b">> and "" is <<"">>.                *)

Cat(t, u) == SubSeq(t, 1, Len(t) - 1) \o <<t[Len(t)] \o u[1]>> \o Tail(u)

(* The lines of a string, from position i, the current line starting at    *)
(* position start.                                                         *)
RECURSIVE LinesFrom(_, _, _)
LinesFrom(string, i, start) ==
    IF i > Len(string) THEN <<SubSeq(string, start, Len(string))>>
    ELSE IF SubSeq(string, i, i) = "\n"
    THEN <<SubSeq(string, start, i - 1)>> \o LinesFrom(string, i + 1, i + 1)
    ELSE LinesFrom(string, i + 1, start)

TextLines(string) == LinesFrom(string, 1, 1)

(* The white space that str.strip() removes: the characters for which     *)
(* str.isspace() holds.  Between the quotes stand, after the space and the *)
(* four escapes, the characters U+000B, U+001C, U+001D, U+001E, U+001F,    *)
(* U+0085, U+00A0 and U+1680 themselves.  The other white space of Python, *)
(* U+2000 to U+200A, U+2028, U+2029, U+202F, U+205F and U+3000, cannot be  *)
(* written in a string of this module and is in no text of the model.      *)
WhiteSpace ==
    {" ", "\t", "\r", "\f", "\n",
     "", "", "", "", "", "", " ", " "}

(* The line boundaries of str.splitlines(): line feed, carriage return,    *)
(* form feed, U+000B, U+001C, U+001D, U+001E and U+0085 (and U+2028,       *)
(* U+2029, which no string of this module can hold).  A carriage return    *)
(* and the line feed after it end one line; scanned as two boundaries the  *)
(* second ends an empty line, which gets no prefix.                        *)
LineBoundaries == {"\n", "\r", "\f", "", "", "", "", ""}

(* textwrap.indent(text, "  ") on one line of the text: splitlines(True)   *)
(* ends a line after each of LineBoundaries, and the prefix is put before  *)
(* each line that strip() does not leave empty.  The scan is at position   *)
(* i, the current line starts at position start, and nonblank tells        *)
(* whether it has shown a character that is not white space.               *)
RECURSIVE IndentFrom(_, _, _, _)
IndentFrom(line, i, start, nonblank) ==
    IF i > Len(line)
    THEN (IF nonblank THEN "  " ELSE "") \o SubSeq(line, start, Len(line))
    ELSE IF SubSeq(line, i, i) \in LineBoundaries
    THEN (IF nonblank THEN "  " ELSE "") \o SubSeq(line, start, i)
         \o IndentFrom(line, i + 1, i + 1, FALSE)
    ELSE IndentFrom(line, i + 1, start,
                    nonblank \/ SubSeq(line, i, i) \notin WhiteSpace)

indent(t) == [i \in DOMAIN t |-> IndentFrom(t[i], 1, 1, FALSE)]

RECURSIVE JoinLines(_)
JoinLines(ts) == IF ts = <<>> THEN <<>> ELSE Head(ts) \o JoinLines(Tail(ts))

(* "\n".join(ts): the empty join is the empty text.                        *)
JoinNewline(ts) == IF ts = <<>> THEN <<"">> ELSE JoinLines(ts)

RECURSIVE RawToText(_, _)
RawToText(chunks, display_map) ==
    IF chunks = <<>> THEN <<"">>
    ELSE Cat(IF Head(chunks).isLink THEN display_map[Head(chunks).link]
             ELSE TextLines(Head(chunks).text),
             RawToText(Tail(chunks), display_map))

SubquestionText(w, i, display_map) ==
    JoinLines(<< <<ToString(i) \o ".">>,
                 Cat(indent(display_map[w.subquestions[i][1]]), <<",">>),
                 Cat(indent(display_map[w.subquestions[i][2]]), <<",">>),
                 indent(display_map[w.subquestions[i][3]]) >>)

WorkspaceToText(w, display_map) ==
    JoinLines(<<
      IF w.predecessor_link # NoAddr
      THEN <<"Predecessor:">> \o indent(display_map[w.predecessor_link]) ELSE <<>>,
      <<"Question:">>, indent(display_map[w.question_link]),
      <<"Scratchpad:">>, indent(display_map[w.scratchpad_link]),
      <<"Subquestions:">>,
      indent(JoinNewline([i \in DOMAIN w.subquestions |->
                            SubquestionText(w, i, display_map)])) >>)

(* Hypertext.to_str(display_map); KeyError when a link has no text.        *)
PageToText(page, display_map) ==
    IF \E i \in DOMAIN Links(page) : ~Has(display_map, Links(page)[i])
    THEN [exc |-> "KeyError", text |-> <<"">>]
    ELSE [exc |-> "none",
          text |-> IF page.kind = "raw" THEN RawToText(page.chunks, display_map)
                   ELSE WorkspaceToText(page, display_map)]

-----------------------------------------------------------------------------
(* text_manipulation.py: make_link_texts.                                  *)

RECURSIVE LinksOfPages(_, _)
LinksOfPages(S, visited) ==
    IF visited = <<>> THEN <<>>
    ELSE Links(Dereference(S, Head(visited)).ret) \o LinksOfPages(S, Tail(visited))

(* Lines 101-104: the for loop.  loop holds the links still to come, the   *)
(* counts, and the links whose count has reached zero.                     *)
RECURSIVE Decrement(_)
Decrement(loop) ==
    IF loop.outgoing = <<>> THEN loop
    ELSE Decrement([outgoing |-> Tail(loop.outgoing),
                    include_counts |->
                      Put(loop.include_counts, Head(loop.outgoing),
                          Get(loop.include_counts, Head(loop.outgoing), 0) - 1),
                    ready |->
                      IF Get(loop.include_counts, Head(loop.outgoing), 0) - 1 = 0
                      THEN Append(loop.ready, Head(loop.outgoing)) ELSE loop.ready])

(* Lines 96-104: the while loop.  loop holds no_incomings, include_counts  *)
(* and order.                                                              *)
RECURSIVE TopologicalOrder(_, _, _)
TopologicalOrder(loop, S, unlocked_locations) ==
    IF loop.no_incomings = <<>> THEN loop.order
    ELSE TopologicalOrder(
           IF Head(loop.no_incomings) \notin unlocked_locations
           THEN [no_incomings |-> Tail(loop.no_incomings),
                 include_counts |-> loop.include_counts,
                 order |-> Append(loop.order, Head(loop.no_incomings))]
           ELSE
             With(Decrement([outgoing |->
                               Links(Dereference(S, Head(loop.no_incomings)).ret),
                             include_counts |-> loop.include_counts, ready |-> <<>>]),
                  LAMBDA d :
                    [no_incomings |-> Tail(loop.no_incomings) \o d.ready,
                     include_counts |-> d.include_counts,
                     order |-> Append(loop.order, Head(loop.no_incomings))]),
           S, unlocked_locations)

(* The loop over reversed(order) of lines 108-118.  loop holds the         *)
(* position i in order, from the last down, and link_texts, and exc the    *)
(* exception of the last iteration.                                        *)
RECURSIVE LinkTexts(_, _, _, _, _, _)
LinkTexts(loop, order, root_link, S, unlocked_locations, pointer_names) ==
    IF loop.exc # "none" \/ loop.i = 0
    THEN [exc |-> loop.exc, link_texts |-> loop.link_texts]
    ELSE LinkTexts(
           IF order[loop.i] = root_link THEN [loop EXCEPT !.i = @ - 1]
           ELSE IF ~Has(pointer_names, order[loop.i]) THEN [loop EXCEPT !.exc = "KeyError"]
           ELSE IF order[loop.i] \notin unlocked_locations
           THEN [i |-> loop.i - 1,
                 link_texts |-> Put(loop.link_texts, order[loop.i],
                                    <<pointer_names[order[loop.i]]>>),
                 exc |-> "none"]
           ELSE
             With(PageToText(Dereference(S, order[loop.i]).ret, loop.link_texts),
                  LAMBDA content :
                    IF content.exc # "none" THEN [loop EXCEPT !.exc = content.exc]
                    ELSE [i |-> loop.i - 1,
                          link_texts |->
                            Put(loop.link_texts, order[loop.i],
                                Cat(<<"[" \o pointer_names[order[loop.i]] \o ": ">>,
                                    Cat(content.text, <<"]">>))),
                          exc |-> "none"]),
           order, root_link, S, unlocked_locations, pointer_names)

make_link_texts(root_link, S, unlocked_locations, pointer_names) ==
    With(visit_unlocked_region(root_link, root_link, S, unlocked_locations), LAMBDA visited :
      IF visited.exc # "none" THEN [exc |-> visited.exc, link_texts |-> EmptyMap]
      ELSE
        With(LinksOfPages(S, visited.ret), LAMBDA all :
        With([l \in Range(all) |-> CountIn(all, l)], LAMBDA include_counts :
          IF Get(include_counts, root_link, 0) # 0
          THEN [exc |-> "AssertionError", link_texts |-> EmptyMap]
          ELSE
            With(TopologicalOrder([no_incomings |-> <<root_link>>,
                                   include_counts |-> include_counts, order |-> <<>>],
                                  S, unlocked_locations),
                 LAMBDA order :
                   LinkTexts([i |-> Len(order), link_texts |-> EmptyMap, exc |-> "none"],
                             order, root_link, S, unlocked_locations,
                             pointer_names)))))

-----------------------------------------------------------------------------
(* context.py.  A Context is a record of its workspace_link, its           *)
(* unlocked_locations, its parent (None at a root) and its display; the    *)
(* pointer names are recomputed from the first two whenever they are used. *)

(* A mutant of assign that records the name of the link and not the link   *)
(* of the name.                                                            *)
assign_ForwardOnly(names, link, string) == [names EXCEPT !.pointers = Put(@, link, string)]

assign(names, link, string) ==
    [pointers |-> Put(names.pointers, link, string),
     backward_pointers |-> Put(names.backward_pointers, string, link),
     count |-> names.count]

(* Lines 65-69: the subquestions from the last to the first.  loop holds   *)
(* the number i of the subquestion to name next and the names assigned.    *)
RECURSIVE NameSubquestions(_, _)
NameSubquestions(subs, loop) ==
    IF loop.i = 0 THEN loop.names
    ELSE NameSubquestions(subs,
           [i |-> loop.i - 1,
            names |->
              assign(assign(assign(loop.names, subs[loop.i][1], "$q" \o ToString(loop.i)),
                            subs[loop.i][2], "$a" \o ToString(loop.i)),
                     subs[loop.i][3], "$w" \o ToString(loop.i))])

RECURSIVE NameLinks(_, _)
NameLinks(links, names) ==
    IF links = <<>> THEN names
    ELSE IF Has(names.pointers, Head(links)) THEN NameLinks(Tail(links), names)
    ELSE NameLinks(Tail(links),
                   assign([names EXCEPT !.count = @ + 1], Head(links),
                          "$" \o ToString(names.count + 1)))

_name_pointers(self_link, unlocked_locations, workspace_link, S) ==
    With(Dereference(S, workspace_link), LAMBDA workspace_root :
    With(visit_unlocked_region(self_link, workspace_link, S, unlocked_locations),
         LAMBDA visited :
           IF workspace_root.exc # "none" THEN Raise(S, workspace_root.exc)
           ELSE IF visited.exc # "none" THEN Raise(S, visited.exc)
           ELSE Ok(S, NameLinks(LinksOfPages(S, visited.ret),
                                NameSubquestions(workspace_root.ret.subquestions,
                                                 [i |-> Len(workspace_root.ret.subquestions),
                                                  names |-> [pointers |-> EmptyMap,
                                                             backward_pointers |-> EmptyMap,
                                                             count |-> 0]])))))

unlocked_locations_from_workspace(context, workspace_link, S) ==
    With(visit_unlocked_region(context.workspace_link, workspace_link, S,
                               context.unlocked_locations),
         LAMBDA visited :
           IF visited.exc # "none" THEN visited ELSE Ok(S, Range(visited.ret)))

name_pointers_for_workspace(context, workspace_link, S) ==
    With(_name_pointers(context.workspace_link, context.unlocked_locations,
                        workspace_link, S),
         LAMBDA names :
           IF names.exc # "none" THEN names ELSE Ok(S, names.ret.backward_pointers))

SubquestionDisplay(workspace, i, link_texts) ==
    JoinLines(<< <<ToString(i) \o ".">>,
                 indent(link_texts[workspace.subquestions[i][1]]),
                 indent(link_texts[workspace.subquestions[i][2]]),
                 indent(link_texts[workspace.subquestions[i][3]]) >>)

to_str(workspace_link, unlocked_locations, pointer_names, S) ==
    With(make_link_texts(workspace_link, S, unlocked_locations, pointer_names), LAMBDA made :
    With(Dereference(S, workspace_link).ret, LAMBDA workspace :
      IF made.exc # "none" THEN Raise(S, made.exc)
      ELSE IF \E i \in DOMAIN Links(workspace) :
                 ~Has(made.link_texts, Links(workspace)[i])
      THEN Raise(S, "KeyError")
      ELSE Ok(S, JoinLines(<<
             IF workspace.predecessor_link # NoAddr
             THEN Cat(<<"Predecessor: ">>, made.link_texts[workspace.predecessor_link])
             ELSE <<>>,
             Cat(<<"Question: ">>, made.link_texts[workspace.question_link]),
             Cat(<<"Scratchpad: ">>, made.link_texts[workspace.scratchpad_link]),
             <<"Subquestions:">>,
             JoinNewline([i \in DOMAIN workspace.subquestions |->
                            SubquestionDisplay(workspace, i, made.link_texts)]),
             <<"">> >>))))

DefaultUnlocked(workspace_link, workspace) ==
    {workspace_link, workspace.question_link, workspace.scratchpad_link}
    \cup {workspace.subquestions[i][1] : i \in DOMAIN workspace.subquestions}
    \cup (IF workspace.predecessor_link # NoAddr THEN {workspace.predecessor_link}
          ELSE {})

(* Context.__init__ once the unlocked locations are known.                 *)
NewContext(workspace_link, S, unlocked, parent) ==
    With(_name_pointers(workspace_link, unlocked, workspace_link, S), LAMBDA names :
      IF names.exc # "none" THEN Raise(S, names.exc)
      ELSE
        With(to_str(workspace_link, unlocked, names.ret.pointers, S), LAMBDA display :
          IF display.exc # "none" THEN Raise(S, display.exc)
          ELSE Ok(S, [workspace_link |-> workspace_link,
                      unlocked_locations |-> unlocked,
                      parent |-> parent, display |-> display.ret])))

(* Context(workspace_link, db, unlocked_locations=..., parent=...)         *)
Context(workspace_link, S, unlocked_locations, parent) ==
    With(Dereference(S, workspace_link), LAMBDA workspace :
      IF workspace.exc # "none" THEN Raise(S, workspace.exc)
      ELSE NewContext(workspace_link, S, unlocked_locations \cup {workspace_link},
                      parent))

(* Context(workspace_link, db, parent=...): the default unlocked set.      *)
DefaultContext(workspace_link, S, parent) ==
    With(Dereference(S, workspace_link), LAMBDA workspace :
      IF workspace.exc # "none" THEN Raise(S, workspace.exc)
      ELSE NewContext(workspace_link, S,
                      DefaultUnlocked(workspace_link, workspace.ret), parent))

(* Context.__eq__: the display is not compared, the parents are.           *)
RECURSIVE ContextEq(_, _)
ContextEq(c, other) ==
    IF IsNone(c) \/ IsNone(other) THEN IsNone(c) /\ IsNone(other)
    ELSE /\ c.workspace_link = other.workspace_link
         /\ c.unlocked_locations = other.unlocked_locations
         /\ ContextEq(c.parent, other.parent)

RECURSIVE Ancestors(_)
Ancestors(c) == IF IsNone(c.parent) THEN <<>> ELSE <<c.parent>> \o Ancestors(c.parent)

is_own_ancestor(self, S) ==
    \E i \in DOMAIN Ancestors(self) :
        /\ ContextEq(Ancestors(self)[i], self)
        /\ Canonicalize(S, Ancestors(self)[i].workspace_link).ret
           = Canonicalize(S, self.workspace_link).ret

(* The promisee of an Unlock on a pending address, and its hydration.      *)
DryContext(workspace_link, unlocked_locations, parent) ==
    [workspace_link |-> workspace_link, unlocked_locations |-> unlocked_locations,
     parent |-> parent]

from_dry(dry_context, S) ==
    Context(dry_context.workspace_link, S, dry_context.unlocked_locations,
            dry_context.parent)

-----------------------------------------------------------------------------
(* text_manipulation.py: a parsed text is a sequence of pieces, a literal  *)
(* Lit(s), a pointer name Ptr("$a1"), or the pieces of a bracketed text,   *)
(* Subnode(pieces).                                                        *)

Ptr(name) == [isLink |-> TRUE, text |-> name, link |-> NoAddr]
Subnode(pieces) == [isLink |-> FALSE, text |-> "", link |-> NoAddr, pieces |-> pieces]
IsSubnode(piece) == "pieces" \in DOMAIN piece

(* Lines 9-22: the grammar.  A parser reads the string from position i and *)
(* yields the position after what it matched.                              *)
CharAt(string, i) == IF i <= Len(string) THEN SubSeq(string, i, i) ELSE ""

Digits == {"0", "1", "2", "3", "4", "5", "6", "7", "8", "9"}

RECURSIVE DigitsFrom(_, _)
DigitsFrom(string, i) ==
    IF CharAt(string, i) \in Digits THEN DigitsFrom(string, i + 1) ELSE i

(* Line 9, the regular expression of a link: a dollar sign, at most one of *)
(* a, w and q, a digit from 1 to 9 and then digits, as many as follow.  0  *)
(* when it does not match at i.                                            *)
link(string, i) ==
    IF CharAt(string, i) # "$" THEN 0
    ELSE With(IF CharAt(string, i + 1) \in {"a", "w", "q"} THEN i + 2 ELSE i + 1,
              LAMBDA number :
           IF CharAt(string, number) \in Digits \ {"0"}
           THEN DigitsFrom(string, number + 1) ELSE 0)

(* Line 10, the regular expression of other text: one or more characters  *)
(* that are no bracket and no dollar sign.  i when it does not match.      *)
RECURSIVE otherstuff(_, _)
otherstuff(string, i) ==
    IF CharAt(string, i) \in {"", "[", "$", "]"} THEN i
    ELSE otherstuff(string, i + 1)

(* Lines 15-22: (link | subnode | otherstuff).many() from position i,      *)
(* pieces being those read so far.  A bracket whose text is not followed   *)
(* by the closing bracket matches nothing, and the repetition ends there.  *)
RECURSIVE hypertext(_, _, _)
subnode(string, i) ==
    IF CharAt(string, i) # "[" THEN [index |-> 0, pieces |-> <<>>]
    ELSE With(hypertext(string, i + 1, <<>>), LAMBDA result :
           IF CharAt(string, result.index) = "]"
           THEN [index |-> result.index + 1, pieces |-> result.pieces]
           ELSE [index |-> 0, pieces |-> <<>>])

hypertext(string, i, pieces) ==
    IF link(string, i) # 0
    THEN hypertext(string, link(string, i),
                   Append(pieces, Ptr(SubSeq(string, i, link(string, i) - 1))))
    ELSE
      With(subnode(string, i), LAMBDA nested :
        IF nested.index # 0
        THEN hypertext(string, nested.index, Append(pieces, Subnode(nested.pieces)))
        ELSE IF otherstuff(string, i) > i
        THEN hypertext(string, otherstuff(string, i),
                       Append(pieces, Lit(SubSeq(string, i, otherstuff(string, i) - 1))))
        ELSE [index |-> i, pieces |-> pieces])

(* hypertext.parse(content) of lines 61 and 70: the whole string has to be *)
(* matched.                                                                *)
parse(content) ==
    With(hypertext(content, 1, <<>>), LAMBDA parsed :
      IF parsed.index = Len(content) + 1
      THEN [exc |-> "none", ret |-> parsed.pieces]
      ELSE [exc |-> "ParseError", ret |-> <<>>])

(* Lines 33-43: the loop over the pieces, result being the chunks made so  *)
(* far.  A bracketed text is inserted as a page of its own and stays       *)
(* inserted when a later piece raises KeyError.                            *)
RECURSIVE Chunks(_, _, _, _)
Chunks(pieces, S, pointer_link_map, result) ==
    IF pieces = <<>> THEN Ok(S, result)
    ELSE IF IsSubnode(Head(pieces))
    THEN With(Chunks(Head(pieces).pieces, S, pointer_link_map, <<>>), LAMBDA nested :
           IF nested.exc # "none" THEN nested
           ELSE With(InsertIn(nested.S, RawHypertext(nested.ret)), LAMBDA inserted :
                  IF inserted.exc # "none" THEN inserted
                  ELSE Chunks(Tail(pieces), inserted.S, pointer_link_map,
                              Append(result, Link(inserted.ret)))))
    ELSE IF ~Head(pieces).isLink
    THEN Chunks(Tail(pieces), S, pointer_link_map, Append(result, Head(pieces)))
    ELSE IF ~Has(pointer_link_map, Head(pieces).text) THEN Raise(S, "KeyError")
    ELSE Chunks(Tail(pieces), S, pointer_link_map,
                Append(result, Link(pointer_link_map[Head(pieces).text])))

recursively_create_hypertext(pieces, S, pointer_link_map) ==
    With(Chunks(pieces, S, pointer_link_map, <<>>), LAMBDA result :
      IF result.exc # "none" THEN result ELSE Ok(result.S, RawHypertext(result.ret)))

recursively_insert_hypertext(pieces, S, pointer_link_map) ==
    With(recursively_create_hypertext(pieces, S, pointer_link_map), LAMBDA created :
      IF created.exc # "none" THEN created ELSE InsertIn(created.S, created.ret))

(* Lines 56-62: a text the grammar rejects raises before anything is       *)
(* stored.                                                                 *)
insert_raw_hypertext(content, S, pointer_link_map) ==
    With(parse(content), LAMBDA parsed :
      IF parsed.exc # "none" THEN Raise(S, parsed.exc)
      ELSE recursively_insert_hypertext(parsed.ret, S, pointer_link_map))

(* Lines 65-71.                                                            *)
create_raw_hypertext(content, S, pointer_link_map) ==
    With(parse(content), LAMBDA parsed :
      IF parsed.exc # "none" THEN Raise(S, parsed.exc)
      ELSE recursively_create_hypertext(parsed.ret, S, pointer_link_map))

-----------------------------------------------------------------------------
(* actions.py.  execute returns the store after the call, the successor    *)
(* (None when there is none), the list of other contexts, and what the     *)
(* call delivered: the promisees a Reply received from the promises it     *)
(* resolved, as pairs of the promise and the hydrated context.             *)

Scratch(scratch_text) == [kind |-> "Scratch", text |-> scratch_text]
AskSubquestion(question_text) == [kind |-> "AskSubquestion", text |-> question_text]
Reply(reply_text) == [kind |-> "Reply", text |-> reply_text]
Unlock(unlock_text) == [kind |-> "Unlock", text |-> unlock_text]

Done(S, successor, other_contexts, delivered) ==
    [S |-> S, successor |-> successor, other_contexts |-> other_contexts,
     delivered |-> delivered, exc |-> "none"]
Fail(S, exc) ==
    [S |-> S, successor |-> None, other_contexts |-> <<>>, delivered |-> {},
     exc |-> exc]

(* A mutant of Scratch.execute that leaves the old workspace unlocked.      *)
ScratchExecute_KeepsOld(action, S, context) ==
    With(name_pointers_for_workspace(context, context.workspace_link, S), LAMBDA names :
      IF names.exc # "none" THEN Fail(S, names.exc)
      ELSE
      With(insert_raw_hypertext(action.text, S, names.ret), LAMBDA new_scratchpad :
        IF new_scratchpad.exc # "none" THEN Fail(new_scratchpad.S, new_scratchpad.exc)
        ELSE
        With(Dereference(new_scratchpad.S, context.workspace_link).ret,
             LAMBDA current_workspace :
        With(InsertIn(new_scratchpad.S,
                      Workspace(current_workspace.question_link,
                                current_workspace.answer_promise,
                                current_workspace.final_workspace_promise,
                                new_scratchpad.ret, current_workspace.subquestions)),
             LAMBDA successor_workspace_link :
        With(unlocked_locations_from_workspace(context, context.workspace_link,
                                               successor_workspace_link.S),
             LAMBDA region :
          IF region.exc # "none" THEN Fail(successor_workspace_link.S, region.exc)
          ELSE
          With(Context(successor_workspace_link.ret, successor_workspace_link.S,
                       region.ret
                       \cup {successor_workspace_link.ret, new_scratchpad.ret},
                       context),
               LAMBDA successor :
                 IF successor.exc # "none"
                 THEN Fail(successor_workspace_link.S, successor.exc)
                 ELSE Done(successor_workspace_link.S, successor.ret, <<>>, {})))))))

(* A mutant of Scratch.execute that stores the successor workspace under a *)
(* new address whether or not an equal workspace is stored.                *)
ScratchExecute_Mints(action, S, context) ==
    With(name_pointers_for_workspace(context, context.workspace_link, S), LAMBDA names :
      IF names.exc # "none" THEN Fail(S, names.exc)
      ELSE
      With(insert_raw_hypertext(action.text, S, names.ret), LAMBDA new_scratchpad :
        IF new_scratchpad.exc # "none" THEN Fail(new_scratchpad.S, new_scratchpad.exc)
        ELSE
        With(Dereference(new_scratchpad.S, context.workspace_link).ret,
             LAMBDA current_workspace :
        With(PwInsert_Fresh(new_scratchpad.S,
                            Workspace(current_workspace.question_link,
                                      current_workspace.answer_promise,
                                      current_workspace.final_workspace_promise,
                                      new_scratchpad.ret, current_workspace.subquestions)),
             LAMBDA successor_workspace_link :
        With(unlocked_locations_from_workspace(context, context.workspace_link,
                                               successor_workspace_link.S),
             LAMBDA region :
          IF region.exc # "none" THEN Fail(successor_workspace_link.S, region.exc)
          ELSE
          With(Context(successor_workspace_link.ret, successor_workspace_link.S,
                       (region.ret \ {context.workspace_link})
                       \cup {successor_workspace_link.ret, new_scratchpad.ret},
                       context),
               LAMBDA successor :
                 IF successor.exc # "none"
                 THEN Fail(successor_workspace_link.S, successor.exc)
                 ELSE Done(successor_workspace_link.S, successor.ret, <<>>, {})))))))

ScratchExecute(action, S, context) ==
    With(name_pointers_for_workspace(context, context.workspace_link, S), LAMBDA names :
      IF names.exc # "none" THEN Fail(S, names.exc)
      ELSE
      With(insert_raw_hypertext(action.text, S, names.ret), LAMBDA new_scratchpad :
        IF new_scratchpad.exc # "none" THEN Fail(new_scratchpad.S, new_scratchpad.exc)
        ELSE
        With(Dereference(new_scratchpad.S, context.workspace_link).ret,
             LAMBDA current_workspace :
        With(InsertIn(new_scratchpad.S,
                      Workspace(current_workspace.question_link,
                                current_workspace.answer_promise,
                                current_workspace.final_workspace_promise,
                                new_scratchpad.ret, current_workspace.subquestions)),
             LAMBDA successor_workspace_link :
        With(unlocked_locations_from_workspace(context, context.workspace_link,
                                               successor_workspace_link.S),
             LAMBDA region :
          IF region.exc # "none" THEN Fail(successor_workspace_link.S, region.exc)
          ELSE
          With(Context(successor_workspace_link.ret, successor_workspace_link.S,
                       (region.ret \ {context.workspace_link})
                       \cup {successor_workspace_link.ret, new_scratchpad.ret},
                       context),
               LAMBDA successor :
                 IF successor.exc # "none"
                 THEN Fail(successor_workspace_link.S, successor.exc)
                 ELSE Done(successor_workspace_link.S, successor.ret, <<>>, {})))))))

(* A mutant of AskSubquestion.execute that lists the two promises it made   *)
(* whatever workspace insert returned.                                     *)
AskSubquestionExecute_OwnPromises(action, S, context) ==
    With(name_pointers_for_workspace(context, context.workspace_link, S), LAMBDA names :
      IF names.exc # "none" THEN Fail(S, names.exc)
      ELSE
      With(insert_raw_hypertext(action.text, S, names.ret), LAMBDA subquestion_link :
        IF subquestion_link.exc # "none"
        THEN Fail(subquestion_link.S, subquestion_link.exc)
        ELSE
        With(MakePromiseOn(subquestion_link.S), LAMBDA answer_link :
        With(MakePromiseOn(answer_link.S), LAMBDA final_sub_workspace_link :
        With(insert_raw_hypertext("", final_sub_workspace_link.S, EmptyMap),
             LAMBDA scratchpad_link :
        With(Dereference(scratchpad_link.S, context.workspace_link).ret,
             LAMBDA current_workspace :
        With(InsertIn(scratchpad_link.S,
                      Workspace(subquestion_link.ret, answer_link.ret,
                                final_sub_workspace_link.ret, scratchpad_link.ret, <<>>)),
             LAMBDA sub_workspace_link :
        With(Dereference(sub_workspace_link.S, sub_workspace_link.ret).ret,
             LAMBDA sub_workspace :
        With(InsertIn(sub_workspace_link.S,
                      Workspace(current_workspace.question_link,
                                current_workspace.answer_promise,
                                current_workspace.final_workspace_promise,
                                current_workspace.scratchpad_link,
                                Append(current_workspace.subquestions,
                                       <<subquestion_link.ret,
                                         answer_link.ret,
                                         final_sub_workspace_link.ret>>))),
             LAMBDA successor_workspace_link :
        With(unlocked_locations_from_workspace(context, context.workspace_link,
                                               successor_workspace_link.S),
             LAMBDA region :
          IF region.exc # "none" THEN Fail(successor_workspace_link.S, region.exc)
          ELSE
          With(Context(successor_workspace_link.ret, successor_workspace_link.S,
                       (region.ret \ {context.workspace_link})
                       \cup {subquestion_link.ret, successor_workspace_link.ret},
                       context),
               LAMBDA successor :
            IF successor.exc # "none"
            THEN Fail(successor_workspace_link.S, successor.exc)
            ELSE
            With(DefaultContext(sub_workspace_link.ret, successor_workspace_link.S,
                                context),
                 LAMBDA spawned :
                   IF spawned.exc # "none"
                   THEN Fail(successor_workspace_link.S, spawned.exc)
                   ELSE Done(successor_workspace_link.S, successor.ret,
                             <<spawned.ret>>, {})))))))))))))

AskSubquestionExecute(action, S, context) ==
    With(name_pointers_for_workspace(context, context.workspace_link, S), LAMBDA names :
      IF names.exc # "none" THEN Fail(S, names.exc)
      ELSE
      With(insert_raw_hypertext(action.text, S, names.ret), LAMBDA subquestion_link :
        IF subquestion_link.exc # "none"
        THEN Fail(subquestion_link.S, subquestion_link.exc)
        ELSE
        With(MakePromiseOn(subquestion_link.S), LAMBDA answer_link :
        With(MakePromiseOn(answer_link.S), LAMBDA final_sub_workspace_link :
        With(insert_raw_hypertext("", final_sub_workspace_link.S, EmptyMap),
             LAMBDA scratchpad_link :
        With(Dereference(scratchpad_link.S, context.workspace_link).ret,
             LAMBDA current_workspace :
        With(InsertIn(scratchpad_link.S,
                      Workspace(subquestion_link.ret, answer_link.ret,
                                final_sub_workspace_link.ret, scratchpad_link.ret, <<>>)),
             LAMBDA sub_workspace_link :
        With(Dereference(sub_workspace_link.S, sub_workspace_link.ret).ret,
             LAMBDA sub_workspace :
        With(InsertIn(sub_workspace_link.S,
                      Workspace(current_workspace.question_link,
                                current_workspace.answer_promise,
                                current_workspace.final_workspace_promise,
                                current_workspace.scratchpad_link,
                                Append(current_workspace.subquestions,
                                       <<subquestion_link.ret,
                                         sub_workspace.answer_promise,
                                         sub_workspace.final_workspace_promise>>))),
             LAMBDA successor_workspace_link :
        With(unlocked_locations_from_workspace(context, context.workspace_link,
                                               successor_workspace_link.S),
             LAMBDA region :
          IF region.exc # "none" THEN Fail(successor_workspace_link.S, region.exc)
          ELSE
          With(Context(successor_workspace_link.ret, successor_workspace_link.S,
                       (region.ret \ {context.workspace_link})
                       \cup {subquestion_link.ret, successor_workspace_link.ret},
                       context),
               LAMBDA successor :
            IF successor.exc # "none"
            THEN Fail(successor_workspace_link.S, successor.exc)
            ELSE
            With(DefaultContext(sub_workspace_link.ret, successor_workspace_link.S,
                                context),
                 LAMBDA spawned :
                   IF spawned.exc # "none"
                   THEN Fail(successor_workspace_link.S, spawned.exc)
                   ELSE Done(successor_workspace_link.S, successor.ret,
                             <<spawned.ret>>, {})))))))))))))

(* Lines 163-164: the dry contexts are hydrated one after the other.       *)
RECURSIVE Hydrate(_, _)
Hydrate(dry_contexts, S) ==
    IF dry_contexts = <<>> THEN Ok(S, <<>>)
    ELSE
      With(from_dry(Head(dry_contexts), S), LAMBDA first :
        IF first.exc # "none" THEN Raise(S, first.exc)
        ELSE
          With(Hydrate(Tail(dry_contexts), S), LAMBDA rest :
            IF rest.exc # "none" THEN Raise(S, rest.exc)
            ELSE Ok(S, <<first.ret>> \o rest.ret)))

Received(promise, dry_contexts, S) ==
    {[promise |-> promise, context |-> from_dry(dry_contexts[i], S).ret] :
       i \in DOMAIN dry_contexts}

(* A mutant of Reply.execute that leaves the final-workspace promise       *)
(* pending.                                                                *)
ReplyExecute_AnswerOnly(action, S, context) ==
    With(Dereference(S, context.workspace_link).ret, LAMBDA current_workspace :
    With(name_pointers_for_workspace(context, context.workspace_link, S), LAMBDA names :
      IF names.exc # "none" THEN Fail(S, names.exc)
      ELSE
      With(create_raw_hypertext(action.text, S, names.ret), LAMBDA reply_hypertext :
        IF reply_hypertext.exc # "none"
        THEN Fail(reply_hypertext.S, reply_hypertext.exc)
        ELSE
        With(IF ~IsFulfilled(reply_hypertext.S, current_workspace.answer_promise).ret
             THEN ResolvePromiseOn(reply_hypertext.S, current_workspace.answer_promise,
                                   reply_hypertext.ret)
             ELSE Ok(reply_hypertext.S, <<>>),
             LAMBDA answer :
          IF answer.exc # "none" THEN Fail(answer.S, answer.exc)
          ELSE
          With(Hydrate(answer.ret, answer.S), LAMBDA all_successors :
            IF all_successors.exc # "none" THEN Fail(answer.S, all_successors.exc)
            ELSE Done(answer.S, None, all_successors.ret,
                      Received(current_workspace.answer_promise, answer.ret,
                               answer.S)))))))

ReplyExecute(action, S, context) ==
    With(Dereference(S, context.workspace_link).ret, LAMBDA current_workspace :
    With(name_pointers_for_workspace(context, context.workspace_link, S), LAMBDA names :
      IF names.exc # "none" THEN Fail(S, names.exc)
      ELSE
      With(create_raw_hypertext(action.text, S, names.ret), LAMBDA reply_hypertext :
        IF reply_hypertext.exc # "none"
        THEN Fail(reply_hypertext.S, reply_hypertext.exc)
        ELSE
        With(IF ~IsFulfilled(reply_hypertext.S, current_workspace.answer_promise).ret
             THEN ResolvePromiseOn(reply_hypertext.S, current_workspace.answer_promise,
                                   reply_hypertext.ret)
             ELSE Ok(reply_hypertext.S, <<>>),
             LAMBDA answer :
          IF answer.exc # "none" THEN Fail(answer.S, answer.exc)
          ELSE
          With(IF ~IsFulfilled(answer.S, current_workspace.final_workspace_promise).ret
               THEN ResolvePromiseOn(answer.S, current_workspace.final_workspace_promise,
                                     current_workspace)
               ELSE Ok(answer.S, <<>>),
               LAMBDA final :
            IF final.exc # "none" THEN Fail(final.S, final.exc)
            ELSE
            With(Hydrate(answer.ret \o final.ret, final.S), LAMBDA all_successors :
              IF all_successors.exc # "none" THEN Fail(final.S, all_successors.exc)
              ELSE Done(final.S, None, all_successors.ret,
                        Received(current_workspace.answer_promise, answer.ret, final.S)
                        \cup Received(current_workspace.final_workspace_promise,
                                      final.ret, final.S))))))))


(* Lines 181-187: the try block spans the naming of the pointers and the   *)
(* lookup of the unlock text, so a KeyError raised by either becomes a     *)
(* ValueError; any other exception passes.                                 *)
NotVisible(exc) == IF exc = "KeyError" THEN "ValueError" ELSE exc

(* A mutant of Unlock.execute that accepts an address that is already      *)
(* unlocked.                                                               *)
UnlockExecute_Relocks(action, S, context) ==
    With(name_pointers_for_workspace(context, context.workspace_link, S), LAMBDA names :
      IF names.exc # "none" THEN Fail(S, NotVisible(names.exc))
      ELSE IF ~Has(names.ret, action.text) THEN Fail(S, "ValueError")
      ELSE
      With(names.ret[action.text], LAMBDA pointer_address :
      With(unlocked_locations_from_workspace(context, context.workspace_link, S),
           LAMBDA region :
        IF region.exc # "none" THEN Fail(S, region.exc)
        ELSE
        With(DryContext(context.workspace_link, region.ret \cup {pointer_address},
                        context),
             LAMBDA dry_successor_context :
        With(IsFulfilled(S, pointer_address), LAMBDA fulfilled :
          IF fulfilled.exc # "none" THEN Fail(S, fulfilled.exc)
          ELSE IF fulfilled.ret
          THEN With(from_dry(dry_successor_context, S), LAMBDA hydrated :
                 IF hydrated.exc # "none" THEN Fail(S, hydrated.exc)
                 ELSE Done(S, None, <<hydrated.ret>>, {}))
          ELSE With(RegisterPromiseeOn(S, pointer_address, dry_successor_context),
                    LAMBDA registered :
                      IF registered.exc # "none" THEN Fail(registered.S, registered.exc)
                      ELSE Done(registered.S, None, <<>>, {})))))))

UnlockExecute(action, S, context) ==
    With(name_pointers_for_workspace(context, context.workspace_link, S), LAMBDA names :
      IF names.exc # "none" THEN Fail(S, NotVisible(names.exc))
      ELSE IF ~Has(names.ret, action.text) THEN Fail(S, "ValueError")
      ELSE
      With(names.ret[action.text], LAMBDA pointer_address :
      With(unlocked_locations_from_workspace(context, context.workspace_link, S),
           LAMBDA region :
        IF region.exc # "none" THEN Fail(S, region.exc)
        ELSE IF pointer_address \in region.ret THEN Fail(S, "ValueError")
        ELSE
        With(DryContext(context.workspace_link, region.ret \cup {pointer_address},
                        context),
             LAMBDA dry_successor_context :
        With(IsFulfilled(S, pointer_address), LAMBDA fulfilled :
          IF fulfilled.exc # "none" THEN Fail(S, fulfilled.exc)
          ELSE IF fulfilled.ret
          THEN With(from_dry(dry_successor_context, S), LAMBDA hydrated :
                 IF hydrated.exc # "none" THEN Fail(S, hydrated.exc)
                 ELSE Done(S, None, <<hydrated.ret>>, {}))
          ELSE With(RegisterPromiseeOn(S, pointer_address, dry_successor_context),
                    LAMBDA registered :
                      IF registered.exc # "none" THEN Fail(registered.S, registered.exc)
                      ELSE Done(registered.S, None, <<>>, {})))))))

Execute(action, S, context) ==
    CASE action.kind = "Scratch" -> ScratchExecute(action, S, context)
      [] action.kind = "AskSubquestion" -> AskSubquestionExecute(action, S, context)
      [] action.kind = "Reply" -> ReplyExecute(action, S, context)
      [] action.kind = "Unlock" -> UnlockExecute(action, S, context)

-----------------------------------------------------------------------------
(* scheduling.py.  A scheduler state Z is [S, active_contexts,             *)
(* pending_contexts, cache]: the base store, the set of active contexts,   *)
(* the deque of pending contexts and the memoizer's dictionary.  A set or  *)
(* dictionary of contexts finds a context by its hash (the display) and    *)
(* __eq__; two contexts with equal fields have the same display, so this   *)
(* is equality of the records.                                             *)

can_handle(cache, context) == ~IsNone(context) /\ Has(cache, context)
handle(cache, context) == cache[context]
(* A mutant of remember that records nothing.                              *)
remember_Nothing(cache, context, action) == cache

remember(cache, context, action) == Put(cache, context, action)
(* Lines 105-106: del raises KeyError when the context has no entry.       *)
forget(cache, context) ==
    IF Has(cache, context) THEN [exc |-> "none", cache |-> Del(cache, context)]
    ELSE [exc |-> "KeyError", cache |-> cache]

Reverse(seq) == [i \in DOMAIN seq |-> seq[Len(seq) + 1 - i]]

InfiniteLoop == "ValueError: Action resulted in an infinite loop"

(* Lines 164-179: one iteration of the while loop.                         *)
Iteration(possibly_automatable_contexts, S, cache, un_automatable_contexts, delivered, produced) ==
    With(Head(possibly_automatable_contexts), LAMBDA context :
      IF ~can_handle(cache, context)
      THEN [possibly_automatable_contexts |-> Tail(possibly_automatable_contexts),
            S |-> S, un_automatable_contexts |-> Append(un_automatable_contexts, context),
            delivered |-> delivered, produced |-> produced, exc |-> "none"]
      ELSE
        With(Execute(handle(cache, context), S, context), LAMBDA r :
        With(r.other_contexts
             \o (IF IsNone(r.successor) THEN <<>> ELSE <<r.successor>>),
             LAMBDA new_contexts :
          [possibly_automatable_contexts |->
               Tail(possibly_automatable_contexts) \o new_contexts,
           S |-> r.S, un_automatable_contexts |-> un_automatable_contexts,
           delivered |-> IF r.exc = "none" THEN delivered \cup r.delivered ELSE delivered,
           produced |-> IF r.exc = "none" THEN produced \o new_contexts
                        ELSE produced,
           exc |-> IF r.exc # "none" THEN r.exc
                   ELSE IF \E i \in DOMAIN new_contexts :
                              is_own_ancestor(new_contexts[i], r.S)
                   THEN InfiniteLoop
                   ELSE "none"])))

(* Lines 163-179: the while loop.  loop holds the variables of the loop    *)
(* after the iterations run so far, and exc the exception of the last one. *)
RECURSIVE WhileLoop(_, _)
WhileLoop(loop, cache) ==
    IF loop.exc # "none" \/ loop.possibly_automatable_contexts = <<>> THEN loop
    ELSE WhileLoop(Iteration(loop.possibly_automatable_contexts, loop.S, cache,
                             loop.un_automatable_contexts, loop.delivered,
                             loop.produced),
                   cache)

(* Lines 163-179: the while loop over the queue of possibly automatable    *)
(* contexts.  produced is the contexts the automated actions returned, in  *)
(* the order in which they were appended to the queue.                     *)
Automate(possibly_automatable_contexts, S, cache, un_automatable_contexts, delivered, produced) ==
    With(WhileLoop([possibly_automatable_contexts |-> possibly_automatable_contexts,
                    S |-> S, un_automatable_contexts |-> un_automatable_contexts,
                    delivered |-> delivered, produced |-> produced, exc |-> "none"],
                   cache),
         LAMBDA loop :
           [S |-> loop.S, un_automatable_contexts |-> loop.un_automatable_contexts,
            delivered |-> loop.delivered, produced |-> loop.produced,
            exc |-> loop.exc])

(* The result of a scheduler call: the state after it, the value returned, *)
(* the exception raised, and for the claims what the call's actions        *)
(* delivered and produced, the state in which the raising resolve_action   *)
(* was called and the transaction it dropped.                              *)
Returned(Z, ret, delivered, produced) ==
    [Z |-> Z, ret |-> ret, exc |-> "none", delivered |-> delivered,
     produced |-> produced, before |-> Z, dropped |-> NoTx]
Raised(Z, exc, produced, before, dropped) ==
    [Z |-> Z, ret |-> None, exc |-> exc, delivered |-> {}, produced |-> produced,
     before |-> before, dropped |-> dropped]

(* Lines 187-189: the except branch.  An exception of forget replaces the  *)
(* one being handled.                                                      *)
Failed(Z, starting_context, cache, S, exc, produced) ==
    With(forget(cache, starting_context), LAMBDA forgotten :
      Raised([Z EXCEPT !.S = [S EXCEPT !.tx = NoTx], !.cache = forgotten.cache],
             IF forgotten.exc # "none" THEN forgotten.exc ELSE exc,
             produced, Z, S.tx))

(* A mutant of the end of resolve_action that leaves pending_contexts as   *)
(* it was instead of replacing it with the holding list.                   *)
Concluded_KeepsPending(Z, starting_context, cache, first, loop, committed) ==
    IF committed.exc # "none"
    THEN Failed(Z, starting_context, cache, committed.S, committed.exc, loop.produced)
    ELSE Returned([S |-> [committed.S EXCEPT !.tx = NoTx],
                   active_contexts |->
                     (Z.active_contexts \ {starting_context})
                     \cup (IF IsNone(first.successor) THEN {} ELSE {first.successor}),
                   pending_contexts |-> Z.pending_contexts,
                   cache |-> cache],
                  first.successor, loop.delivered, loop.produced)

(* Lines 181-186: what the call leaves once commit() has returned or      *)
(* raised.                                                                 *)
Concluded(Z, starting_context, cache, first, loop, committed) ==
    IF committed.exc # "none"
    THEN Failed(Z, starting_context, cache, committed.S, committed.exc, loop.produced)
    ELSE Returned([S |-> [committed.S EXCEPT !.tx = NoTx],
                   active_contexts |->
                     (Z.active_contexts \ {starting_context})
                     \cup (IF IsNone(first.successor) THEN {} ELSE {first.successor}),
                   pending_contexts |-> loop.un_automatable_contexts,
                   cache |-> cache],
                  first.successor, loop.delivered, loop.produced)

(* Lines 150-189.  The value is the set of the results the call can have:  *)
(* one for each order in which commit() can iterate resolved_promises.     *)
resolve_action(Z, starting_context, action) ==
    IF starting_context \notin Z.active_contexts
    THEN {Raised(Z, "AssertionError", <<>>, Z, NoTx)}
    ELSE
      With(remember(Z.cache, starting_context, action), LAMBDA cache :
      With(Execute(action, [Z.S EXCEPT !.tx = NewTx], starting_context), LAMBDA first :
        IF first.exc # "none"
        THEN {Failed(Z, starting_context, cache, first.S, first.exc, <<>>)}
        ELSE
        With(Automate(Reverse(first.other_contexts) \o Z.pending_contexts,
                      first.S, cache, <<>>, first.delivered, <<>>),
             LAMBDA loop :
          IF loop.exc # "none"
          THEN {Failed(Z, starting_context, cache, loop.S, loop.exc, loop.produced)}
          ELSE {Concluded(Z, starting_context, cache, first, loop,
                          TxCommit(loop.S, order)) :
                  order \in SetOrders(loop.S.tx.resolved_promises)})))

(* A mutant of Replay that returns the root context without replaying.     *)
Replay_Skips(Z, result, delivered, produced) == {Returned(Z, result, delivered, produced)}

(* Lines 145-146: replay through the memoizer while it can handle the      *)
(* current context.  The value is the set of the results it can have.      *)
RECURSIVE Replay(_, _, _, _)
Replay(Z, result, delivered, produced) ==
    IF ~can_handle(Z.cache, result) THEN {Returned(Z, result, delivered, produced)}
    ELSE UNION {IF r.exc # "none" THEN {r}
                ELSE Replay(r.Z, r.ret, delivered \cup r.delivered,
                            produced \o r.produced) :
                  r \in resolve_action(Z, result, handle(Z.cache, result))}

(* Lines 134-148.  The result carries the second member of the returned    *)
(* pair as answer_link: line 143 reads it from the stored workspace of the *)
(* root context before the replay.  The value is the set of the results    *)
(* the call can have.                                                      *)
ask_root_question(Z, contents) ==
    With(insert_raw_hypertext(contents, Z.S, EmptyMap), LAMBDA question_link :
      IF question_link.exc # "none"
      THEN {Raised([Z EXCEPT !.S = question_link.S], question_link.exc, <<>>, Z, NoTx)}
      ELSE
      With(MakePromiseOn(question_link.S), LAMBDA answer_link :
      With(MakePromiseOn(answer_link.S), LAMBDA final_workspace_link :
      With(insert_raw_hypertext("", final_workspace_link.S, EmptyMap),
           LAMBDA scratchpad_link :
      With(InsertIn(scratchpad_link.S,
                    Workspace(question_link.ret, answer_link.ret,
                              final_workspace_link.ret, scratchpad_link.ret, <<>>)),
           LAMBDA new_workspace_link :
      With(DefaultContext(new_workspace_link.ret, new_workspace_link.S, None),
           LAMBDA result :
             IF result.exc # "none"
             THEN {Raised([Z EXCEPT !.S = new_workspace_link.S], result.exc, <<>>, Z, NoTx)}
             ELSE {replayed
                   @@ [answer_link |->
                         Dereference(new_workspace_link.S,
                                     result.ret.workspace_link).ret.answer_promise] :
                     replayed \in Replay([Z EXCEPT !.S = new_workspace_link.S,
                                                   !.active_contexts = @ \cup {result.ret}],
                                         result.ret, {}, <<>>)}))))))

(* context.py lines 10-22.  The recursion of the source does not end when  *)
(* a workspace is reached again from itself: RecursionError.               *)
RECURSIVE _can_advance_promise(_, _, _, _)
RECURSIVE AnyCanAdvance(_, _, _, _)
_can_advance_promise(S, wsaddr, promise, calling) ==
    IF wsaddr \in calling THEN "RecursionError"
    ELSE
      With(<<Dereference(S, wsaddr).ret.answer_promise,
             Dereference(S, wsaddr).ret.final_workspace_promise>>,
           LAMBDA ws_promises :
        IF promise \in Range(ws_promises) THEN "True"
        ELSE
          With(get_promisees(S, ws_promises[1]) \o get_promisees(S, ws_promises[2]),
               LAMBDA promisees :
                 AnyCanAdvance(S, [i \in DOMAIN promisees |-> promisees[i].workspace_link],
                               promise, calling \cup {wsaddr})))

AnyCanAdvance(S, wsaddrs, promise, calling) ==
    IF wsaddrs = <<>> THEN "False"
    ELSE With(_can_advance_promise(S, Head(wsaddrs), promise, calling), LAMBDA first :
           IF first = "False" THEN AnyCanAdvance(S, Tail(wsaddrs), promise, calling)
           ELSE first)

can_advance_promise(context, S, promise) ==
    _can_advance_promise(S, context.workspace_link, promise, {})

(* Line 193: the first pending context that can advance the promise.       *)
RECURSIVE FirstChoice(_, _, _, _)
FirstChoice(pending, i, S, promise) ==
    IF i > Len(pending) THEN [exc |-> "StopIteration", index |-> 0]
    ELSE With(can_advance_promise(pending[i], S, promise), LAMBDA can :
           IF can = "True" THEN [exc |-> "none", index |-> i]
           ELSE IF can = "False" THEN FirstChoice(pending, i + 1, S, promise)
           ELSE [exc |-> can, index |-> 0])

RemoveAt(seq, i) == SubSeq(seq, 1, i - 1) \o SubSeq(seq, i + 1, Len(seq))

choose_context(Z, promise) ==
    With(FirstChoice(Z.pending_contexts, 1, Z.S, promise), LAMBDA choice :
      IF choice.exc # "none" THEN Raised(Z, choice.exc, <<>>, Z, NoTx)
      ELSE Returned([Z EXCEPT !.pending_contexts = RemoveAt(@, choice.index),
                              !.active_contexts =
                                 @ \cup {Z.pending_contexts[choice.index]}],
                    Z.pending_contexts[choice.index], {}, <<>>))

(* Lines 199-201: the append comes first; set.remove of a context that is  *)
(* not in active_contexts raises KeyError after it.                        *)
relinquish_context(Z, context) ==
    IF context \notin Z.active_contexts
    THEN Raised([Z EXCEPT !.pending_contexts = Append(@, context)],
                "KeyError", <<>>, Z, NoTx)
    ELSE Returned([Z EXCEPT !.pending_contexts = Append(@, context),
                            !.active_contexts = @ \ {context}], None, {}, <<>>)

-----------------------------------------------------------------------------
(* The scheduler driven through its interface: ask_root_question,          *)
(* resolve_action, choose_context and relinquish_context, each call one    *)
(* step.  The store is the base Datastore of the scheduler; a transaction  *)
(* lives only inside a resolve_action.                                     *)

Sched ==
    [S |-> [db |-> db, tx |-> NoTx, next |-> next_address],
     active_contexts |-> active_contexts, pending_contexts |-> pending_contexts,
     cache |-> memoizer]

RootQuestions == {"Q"}

(* The last text is one the grammar rejects.                               *)
UserActions ==
    {AskSubquestion("Q"), AskSubquestion("S"),
     Reply("r"), Reply("$a1"),
     Unlock("$a1"), Unlock("$w1"),
     Scratch("n"), Scratch("n]")}

Event(op, r) ==
    [op |-> op, exc |-> r.exc, ret |-> r.ret, delivered |-> r.delivered,
     produced |-> Range(r.produced),
     before |-> IF r.exc = "none" THEN None ELSE r.before,
     dropped |-> r.dropped]

Step(op, r) ==
    /\ calls < MaxSteps
    /\ r.Z.S.next <= MaxAddress + 1
    /\ calls' = calls + 1
    /\ db' = r.Z.S.db
    /\ next_address' = r.Z.S.next
    /\ active_contexts' = r.Z.active_contexts
    /\ pending_contexts' = r.Z.pending_contexts
    /\ memoizer' = r.Z.cache
    /\ event' = Event(op, r)
    /\ UNCHANGED <<tx, db0, last, tokens, log, session, run>>

AskRootQuestion(contents) ==
    /\ calls < MaxSteps
    /\ \E r \in ask_root_question(Sched, contents) : Step("ask_root_question", r)

ResolveAction(starting_context, action) ==
    /\ calls < MaxSteps
    /\ \E r \in resolve_action(Sched, starting_context, action) :
          Step("resolve_action", r)

ChooseContext(promise) ==
    Step("choose_context", choose_context(Sched, promise))

RelinquishContext(context) ==
    Step("relinquish_context", relinquish_context(Sched, context))

(* The contexts a caller can hold and pass to relinquish_context: the      *)
(* active ones, as Session.__exit__ does, and those that are pending or a  *)
(* key of the memoizer.                                                    *)
HeldContexts == active_contexts \cup Range(pending_contexts) \cup DOMAIN memoizer

(* The contexts resolve_action is called with: the active ones and, for   *)
(* the assertion of line 153, the first pending one.                       *)
StartingContexts ==
    active_contexts \cup {pending_contexts[i] : i \in DOMAIN pending_contexts \cap {1}}

SchedNext ==
    \/ \E contents \in RootQuestions : AskRootQuestion(contents)
    \/ \E c \in StartingContexts, action \in UserActions : ResolveAction(c, action)
    \/ \E promise \in 1..(next_address - 1) : ChooseContext(promise)
    \/ \E c \in HeldContexts : RelinquishContext(c)

SchedSpec == StoreInit /\ [][SchedNext]_vars

-----------------------------------------------------------------------------
(* Claims about the scheduler.                                             *)

RaisedInResolveAction ==
    /\ event.op \in {"resolve_action", "ask_root_question"}
    /\ event.exc # "none"

(* C1: whenever a call of Scheduler.resolve_action raises, the base        *)
(* Datastore is what it was before the call: the same content,             *)
(* canonical_addresses, aliases and pending promises, each with the same   *)
(* list of promisees.  This holds of the call that led to each state, and  *)
(* of each Reply, the action that resolves promises, made in each active   *)
(* context of a state in which a promise of the base has promisees.        *)
C1_BaseRestoredOnRaise ==
    /\ RaisedInResolveAction => db = event.before.S.db
    /\ (\E a \in DOMAIN db.promises : db.promises[a] # <<>>) =>
         \A context \in active_contexts :
            \A action \in {a \in UserActions : a.kind = "Reply"} :
               \A r \in resolve_action(Sched, context, action) :
                  r.exc # "none" => r.Z.S.db = db

(* C4: whenever a call of Scheduler.resolve_action raises, active_contexts *)
(* and pending_contexts are unchanged and the memoizer maps the same       *)
(* contexts to the same actions as before the call.                        *)
C4_SchedulerRestoredOnRaise ==
    RaisedInResolveAction =>
        /\ active_contexts = event.before.active_contexts
        /\ pending_contexts = event.before.pending_contexts
        /\ memoizer = event.before.cache

(* A Reply that raises in resolve_action after it has resolved a promise   *)
(* of the base with promisees waiting on it.                               *)
C1_Witness ==
    \E context \in active_contexts :
       \E action \in {a \in UserActions : a.kind = "Reply"} :
          \E r \in resolve_action(Sched, context, action) :
             /\ r.exc # "none"
             /\ r.dropped.open
             /\ \E a \in r.dropped.resolved_promises :
                   Has(db.promises, a) /\ db.promises[a] # <<>>
             /\ r.Z.S.db = db

(* The derived equality of the specification: the displays are equal.      *)
OwnAncestorByDisplay(c) ==
    \E i \in DOMAIN Ancestors(c) :
        /\ Ancestors(c)[i].display = c.display
        /\ DbCanonicalize(Sched.S, Ancestors(c)[i].workspace_link).ret
           = DbCanonicalize(Sched.S, c.workspace_link).ret

(* C8: if a context produced by an automated action is its own ancestor    *)
(* (a context on its parent chain has the same display and the same        *)
(* canonical workspace address) then resolve_action raised the cycle error *)
(* and committed nothing.                                                  *)
C8_OwnAncestorRejected ==
    (/\ event.op \in {"resolve_action", "ask_root_question"}
     /\ \E c \in event.produced : OwnAncestorByDisplay(c))
    => /\ event.exc = InfiniteLoop
       /\ db = event.before.S.db

(* C9: a dry context registered on a pending promise is the context that   *)
(* performed the Unlock with the promise added to its unlocked locations.  *)
Hydrated(c, dry_context) ==
    /\ c.workspace_link = dry_context.workspace_link
    /\ c.unlocked_locations = dry_context.unlocked_locations
    /\ c.parent = dry_context.parent

Suspended ==
    \A p \in DOMAIN db.promises : \A i \in DOMAIN db.promises[p] :
        /\ p \in db.promises[p][i].unlocked_locations
        /\ \A c \in active_contexts \cup Range(pending_contexts) :
              ~Hydrated(c, db.promises[p][i])
        /\ db.promises[p][i].parent \notin active_contexts \cup Range(pending_contexts)

(* C9: from the commit of an Unlock on a pending address p until p is      *)
(* resolved, neither the context that performed it nor its suspended      *)
(* continuation is active or pending; the step that resolves p has a Reply *)
(* that received the continuation from p and returned it hydrated; and     *)
(* what a Reply received, it received from a promise that is resolved      *)
(* after the step, and the scheduler then took it up.                      *)
C9_Step ==
    /\ Suspended'
    /\ \A p \in DOMAIN db.promises \ DOMAIN db'.promises :
         \A i \in DOMAIN db.promises[p] :
            \E e \in event'.delivered :
               /\ e.promise = p
               /\ Hydrated(e.context, db.promises[p][i])
               /\ p \in e.context.unlocked_locations
    /\ \A e \in event'.delivered :
         /\ e.promise \notin DOMAIN db'.promises
         /\ e.context \in active_contexts' \cup Range(pending_contexts')
                              \cup DOMAIN memoizer'

C9_SuspensionAsValue == [][C9_Step]_vars

-----------------------------------------------------------------------------
(* Claims about the actions.  An action is executed by resolve_action on   *)
(* the accumulator of a new transaction over the scheduler's store, in an  *)
(* active context.                                                         *)

Started == [Sched.S EXCEPT !.tx = NewTx]

(* The scheduler driven for MaxActs calls: in each state reached, each     *)
(* action is executed in each active context and its result examined.      *)
ActNext == calls < MaxActs /\ SchedNext

ActSpec == StoreInit /\ [][ActNext]_vars

ActionsOf(kind) == {action \in UserActions : action.kind = kind}

(* The scheduler driven for MaxRaises calls, for the claims about calls    *)
(* that raise: in each state reached, each Reply is made in each active    *)
(* context.                                                                *)
MaxRaises == 5

RaiseNext == calls < MaxRaises /\ SchedNext

RaiseSpec == StoreInit /\ [][RaiseNext]_vars

(* The promisees a Reply receives from a promise: none when the promise is *)
(* already fulfilled.                                                      *)
Waiting(S, promise) ==
    IF IsFulfilled(S, promise).ret THEN <<>> ELSE get_promisees(S, promise)

(* C15: a Reply whose text names only pointers of the context returns; it  *)
(* leaves the answer promise of the workspace holding the reply hypertext  *)
(* and the final-workspace promise holding the current workspace where     *)
(* they were pending, and their earlier value where they were fulfilled;   *)
(* both are fulfilled afterwards, there is no successor, and the other     *)
(* contexts are the promisees of the promises it resolved, hydrated, those *)
(* of the answer promise first.                                            *)
Replyable(S, context, action) ==
    LET names == name_pointers_for_workspace(context, context.workspace_link, S)
    IN /\ names.exc = "none"
       /\ create_raw_hypertext(action.text, S, names.ret).exc = "none"

ReplyDone(S, context, action, r) ==
    LET current_workspace == Dereference(S, context.workspace_link).ret
        answer_promise == current_workspace.answer_promise
        final_workspace_promise == current_workspace.final_workspace_promise
        reply_hypertext ==
            create_raw_hypertext(action.text, S,
                name_pointers_for_workspace(context, context.workspace_link, S).ret).ret
        successors == Waiting(S, answer_promise) \o Waiting(S, final_workspace_promise)
    IN /\ r.exc = "none"
       /\ Dereference(r.S, answer_promise).exc = "none"
       /\ Dereference(r.S, answer_promise).ret
            = (IF IsFulfilled(S, answer_promise).ret
               THEN Dereference(S, answer_promise).ret ELSE reply_hypertext)
       /\ Dereference(r.S, final_workspace_promise).exc = "none"
       /\ Dereference(r.S, final_workspace_promise).ret
            = (IF IsFulfilled(S, final_workspace_promise).ret
               THEN Dereference(S, final_workspace_promise).ret ELSE current_workspace)
       /\ IsFulfilled(r.S, answer_promise).ret
       /\ IsFulfilled(r.S, final_workspace_promise).ret
       /\ IsNone(r.successor)
       /\ Len(r.other_contexts) = Len(successors)
       /\ \A i \in DOMAIN successors : Hydrated(r.other_contexts[i], successors[i])

ReplyChecked(S, context, action, r) ==
    Replyable(S, context, action) => ReplyDone(S, context, action, r)

C15_Reply ==
    \A context \in active_contexts, action \in ActionsOf("Reply") :
      ReplyChecked(Started, context, action, ReplyExecute(action, Started, context))

(* C16: Unlock of a name of the pointer naming whose address is not in the *)
(* unlocked region returns without a successor.  On a fulfilled address it *)
(* returns one other context, on the same workspace, whose unlocked set is *)
(* the unlocked region and the address, and leaves the store as it was; on *)
(* a pending address it returns no context and appends one dry context     *)
(* (the workspace, that unlocked set, the unlocking context as parent) to  *)
(* the promisees of the address and changes nothing else.                  *)
Lockable(S, context, action) ==
    LET names == name_pointers_for_workspace(context, context.workspace_link, S)
        region == unlocked_locations_from_workspace(context, context.workspace_link, S)
    IN /\ names.exc = "none"
       /\ region.exc = "none"
       /\ Has(names.ret, action.text)
       /\ names.ret[action.text] \notin region.ret

UnlockDone(S, context, action, r) ==
    LET pointer_address ==
            name_pointers_for_workspace(context, context.workspace_link,
                                        S).ret[action.text]
        augmented ==
            unlocked_locations_from_workspace(context, context.workspace_link, S).ret
            \cup {pointer_address}
    IN /\ r.exc = "none"
       /\ IsNone(r.successor)
       /\ IF IsFulfilled(S, pointer_address).ret
          THEN /\ Len(r.other_contexts) = 1
               /\ r.other_contexts[1].workspace_link = context.workspace_link
               /\ r.other_contexts[1].unlocked_locations = augmented
               /\ r.S = S
          ELSE /\ r.other_contexts = <<>>
               /\ \A a \in 1..(S.next - 1) :
                     get_promisees(r.S, a)
                       = get_promisees(S, a)
                         \o (IF a = pointer_address
                             THEN <<DryContext(context.workspace_link, augmented, context)>>
                             ELSE <<>>)
               /\ r.S.db = S.db
               /\ r.S.next = S.next
               /\ [r.S.tx EXCEPT !.additional_promisees = S.tx.additional_promisees,
                                 !.additional_order = S.tx.additional_order] = S.tx

UnlockChecked(S, context, action, r) ==
    Lockable(S, context, action) => UnlockDone(S, context, action, r)

C16_Unlock ==
    \A context \in active_contexts, action \in ActionsOf("Unlock") :
      UnlockChecked(Started, context, action, UnlockExecute(action, Started, context))

(* C17: Unlock of a name that is not in the pointer naming of the context, *)
(* or whose address is in its unlocked region, raises ValueError out of    *)
(* execute and out of resolve_action; execute registers no promisee and    *)
(* returns no context, and after resolve_action the store, the active      *)
(* contexts and the pending contexts are what they were.                   *)
Unknown(names, action) ==
    names.exc = "none" /\ ~Has(names.ret, action.text)

(* "$1" is the name of the question of a workspace, which is unlocked in   *)
(* every context on it.                                                    *)
UnlockActions == ActionsOf("Unlock") \cup {Unlock("$1")}

AlreadyUnlocked(names, region, action) ==
    /\ names.exc = "none"
    /\ region.exc = "none"
    /\ Has(names.ret, action.text)
    /\ names.ret[action.text] \in region.ret

UnlockRejected(S, executed, r) ==
    /\ executed.exc = "ValueError"
    /\ executed.S = S
    /\ executed.other_contexts = <<>>
    /\ IsNone(executed.successor)
    /\ r.exc = "ValueError"
    /\ r.Z.S = Sched.S
    /\ r.Z.active_contexts = active_contexts
    /\ r.Z.pending_contexts = pending_contexts

UnlockRejectedIn(context, names, region) ==
    \A action \in UnlockActions :
      (Unknown(names, action) \/ AlreadyUnlocked(names, region, action))
        => \A r \in resolve_action(Sched, context, action) :
              UnlockRejected(Started, UnlockExecute(action, Started, context), r)

C17_UnlockRejected ==
    \A context \in active_contexts :
      UnlockRejectedIn(context,
          name_pointers_for_workspace(context, context.workspace_link, Started),
          unlocked_locations_from_workspace(context, context.workspace_link, Started))

(* An active context with an unlocked address under a name: Unlock of that *)
(* name is rejected.                                                       *)
UnlockedAgainIn(context, names, region) ==
    \E action \in UnlockActions :
      /\ AlreadyUnlocked(names, region, action)
      /\ \A r \in resolve_action(Sched, context, action) :
            UnlockRejected(Started, UnlockExecute(action, Started, context), r)

C17_Witness ==
    \E context \in active_contexts :
      UnlockedAgainIn(context,
          name_pointers_for_workspace(context, context.workspace_link, Started),
          unlocked_locations_from_workspace(context, context.workspace_link, Started))

(* C18 as stated: AskSubquestion makes two promises, both new and pending  *)
(* afterwards; the one other context it returns is on a sub-workspace that *)
(* did not exist before and holds the question, those two promises, the    *)
(* empty scratchpad and no subquestions, with the default unlocked set and *)
(* the asking context as parent; and the workspace of the successor is the *)
(* current one with the triple of the question and the two promises        *)
(* appended to its subquestions.                                           *)
Askable(S, context, action) ==
    LET names == name_pointers_for_workspace(context, context.workspace_link, S)
    IN /\ names.exc = "none"
       /\ create_raw_hypertext(action.text, S, names.ret).exc = "none"

New(S, T) == S.next..(T.next - 1)

(* What AskSubquestion returns, the sub-workspace being the workspace that *)
(* is stored under the address of the other context.                       *)
Asked(S, context, action, r) ==
    LET current_workspace == Dereference(S, context.workspace_link).ret
        question ==
            create_raw_hypertext(action.text, S,
                name_pointers_for_workspace(context, context.workspace_link, S).ret).ret
        sub_workspace_link == r.other_contexts[1].workspace_link
        sub_workspace == Dereference(r.S, sub_workspace_link).ret
        successor_workspace == Dereference(r.S, r.successor.workspace_link).ret
    IN /\ sub_workspace.kind = "ws"
       /\ Dereference(r.S, sub_workspace.question_link).ret = question
       /\ Dereference(r.S, sub_workspace.scratchpad_link).ret = RawHypertext(<<>>)
       /\ sub_workspace.subquestions = <<>>
       /\ successor_workspace
            = [current_workspace EXCEPT
                 !.subquestions = Append(@, <<sub_workspace.question_link,
                                             sub_workspace.answer_promise,
                                             sub_workspace.final_workspace_promise>>)]
       /\ r.other_contexts[1].unlocked_locations
            = {sub_workspace_link, sub_workspace.question_link,
               sub_workspace.scratchpad_link}
       /\ r.other_contexts[1].parent = context
       /\ r.successor.parent = context

(* The two promises of the call are those of the sub-workspace.            *)
Fresh(S, r) ==
    LET sub_workspace_link == r.other_contexts[1].workspace_link
        sub_workspace == Dereference(r.S, sub_workspace_link).ret
    IN /\ sub_workspace_link \in New(S, r.S)
       /\ sub_workspace.answer_promise \in New(S, r.S)
       /\ sub_workspace.final_workspace_promise \in New(S, r.S)
       /\ sub_workspace.answer_promise # sub_workspace.final_workspace_promise
       /\ Has(r.S.tx.new_promises, sub_workspace.answer_promise)
       /\ Has(r.S.tx.new_promises, sub_workspace.final_workspace_promise)

(* The sub-workspace was stored before the call: the two promises of the   *)
(* call are left pending and belong to no workspace.                       *)
Clobbered(S, r) ==
    LET sub_workspace_link == r.other_contexts[1].workspace_link
    IN /\ sub_workspace_link \notin New(S, r.S)
       /\ Dereference(S, sub_workspace_link) = Ok(S, Dereference(r.S, sub_workspace_link).ret)

TwoPromises(S, r) ==
    /\ DOMAIN r.S.tx.new_promises \subseteq New(S, r.S)
    /\ Cardinality(DOMAIN r.S.tx.new_promises) = 2

AskDone(S, context, action, r) ==
    /\ r.exc = "none"
    /\ ~IsNone(r.successor)
    /\ Len(r.other_contexts) = 1
    /\ TwoPromises(S, r)
    /\ Asked(S, context, action, r)
    /\ Fresh(S, r)

AskChecked(S, context, action, r) ==
    Askable(S, context, action) => AskDone(S, context, action, r)

C18_AskSubquestion ==
    \A context \in active_contexts, action \in ActionsOf("AskSubquestion") :
      AskChecked(Started, context, action,
                 AskSubquestionExecute(action, Started, context))

(* C18 amended: AskSubquestion makes two promises, both new and pending    *)
(* afterwards, and returns a successor and one other context; the other    *)
(* context is on the sub-workspace that insert returned, with the default  *)
(* unlocked set and the asking context as parent: a workspace holding the  *)
(* question, the empty scratchpad and no subquestions, which either is new *)
(* and holds the two promises or was stored before the call and holds its  *)
(* own; the workspace of the successor is the current one with the triple  *)
(* of the question and the promises of the sub-workspace appended to its   *)
(* subquestions.                                                           *)
AskStored(S, context, action, r) ==
    /\ r.exc = "none"
    /\ ~IsNone(r.successor)
    /\ Len(r.other_contexts) = 1
    /\ TwoPromises(S, r)
    /\ Asked(S, context, action, r)
    /\ Fresh(S, r) \/ Clobbered(S, r)

AskStoredChecked(S, context, action, r) ==
    Askable(S, context, action) => AskStored(S, context, action, r)

C18_AskSubquestionStored ==
    \A context \in active_contexts, action \in ActionsOf("AskSubquestion") :
      AskStoredChecked(Started, context, action,
                       AskSubquestionExecute(action, Started, context))

(* An active context in which one question gets a new sub-workspace and    *)
(* another gets a workspace that was stored before.                        *)
AskedFresh(S, context, action, r) ==
    Askable(S, context, action) /\ AskStored(S, context, action, r) /\ Fresh(S, r)

AskedClobbered(S, context, action, r) ==
    Askable(S, context, action) /\ AskStored(S, context, action, r) /\ Clobbered(S, r)

C18_Witness ==
    \E context \in active_contexts :
      /\ \E action \in ActionsOf("AskSubquestion") :
            AskedFresh(Started, context, action,
                       AskSubquestionExecute(action, Started, context))
      /\ \E action \in ActionsOf("AskSubquestion") :
            AskedClobbered(Started, context, action,
                           AskSubquestionExecute(action, Started, context))

(* C19: Scratch returns a successor and no other context; the workspace of *)
(* the successor is the current one with the scratchpad replaced by the    *)
(* address of the parsed text, and the unlocked set of the successor is    *)
(* the unlocked region of the context without the old workspace address,   *)
(* with the new workspace address and the new scratchpad address.          *)
Scratchable(S, context, action) ==
    LET names == name_pointers_for_workspace(context, context.workspace_link, S)
    IN /\ names.exc = "none"
       /\ create_raw_hypertext(action.text, S, names.ret).exc = "none"

ScratchDone(S, context, action, r) ==
    LET current_workspace == Dereference(S, context.workspace_link).ret
        scratch ==
            create_raw_hypertext(action.text, S,
                name_pointers_for_workspace(context, context.workspace_link, S).ret).ret
        region == unlocked_locations_from_workspace(context, context.workspace_link, S).ret
        successor_workspace == Dereference(r.S, r.successor.workspace_link).ret
    IN /\ r.exc = "none"
       /\ ~IsNone(r.successor)
       /\ r.other_contexts = <<>>
       /\ r.delivered = {}
       /\ Dereference(r.S, successor_workspace.scratchpad_link).ret = scratch
       /\ successor_workspace
            = [current_workspace EXCEPT !.scratchpad_link = successor_workspace.scratchpad_link]
       /\ r.successor.unlocked_locations
            = (region \ {context.workspace_link})
              \cup {r.successor.workspace_link, successor_workspace.scratchpad_link}
       /\ r.successor.parent = context
       /\ \A a \in Addresses :
            Dereference(S, a).exc = "none" => Dereference(r.S, a) = Ok(r.S, Dereference(S, a).ret)

ScratchChecked(S, context, action, r) ==
    Scratchable(S, context, action) => ScratchDone(S, context, action, r)

C19_Scratch ==
    \A context \in active_contexts, action \in ActionsOf("Scratch") :
      ScratchChecked(Started, context, action, ScratchExecute(action, Started, context))

(* An active context with a subquestion whose scratchpad Scratch replaces. *)
Scratched(S, context, action, r) ==
    /\ Scratchable(S, context, action)
    /\ ScratchDone(S, context, action, r)
    /\ r.successor.workspace_link # context.workspace_link
    /\ Dereference(S, context.workspace_link).ret.subquestions # <<>>

C19_Witness ==
    \E context \in active_contexts, action \in ActionsOf("Scratch") :
      Scratched(Started, context, action, ScratchExecute(action, Started, context))

(* C20 as stated: Scratch(t) in the successor of Scratch(t) returns a      *)
(* successor on a workspace that did not exist before, at an address other *)
(* than that of the workspace it was applied to, and the displays of the   *)
(* two successors are equal.                                               *)
Minted(first, second) ==
    /\ second.exc = "none"
    /\ second.successor.workspace_link # first.successor.workspace_link
    /\ second.successor.workspace_link \in New(first.S, second.S)
    /\ second.successor.display = first.successor.display

ScratchedTwice(S, context, action, first, Twice(_, _)) ==
    (Scratchable(S, context, action) /\ first.exc = "none")
      => Twice(first, ScratchExecute(action, first.S, first.successor))

C20_ScratchTwiceMints ==
    \A context \in active_contexts, action \in ActionsOf("Scratch") :
      ScratchedTwice(Started, context, action,
                     ScratchExecute(action, Started, context), Minted)

(* C20 amended: Scratch(t) in the successor of Scratch(t) stores nothing:  *)
(* its successor is on the workspace it was applied to, with the same      *)
(* display as the successor of the first and an unlocked set within that   *)
(* of the first.                                                           *)
Reused(first, second) ==
    /\ second.exc = "none"
    /\ second.successor.workspace_link = first.successor.workspace_link
    /\ New(first.S, second.S) = {}
    /\ ContentOn(second.S) = ContentOn(first.S)
    /\ second.successor.unlocked_locations \subseteq first.successor.unlocked_locations
    /\ second.successor.display = first.successor.display
    /\ second.successor.parent = first.successor

C20_ScratchTwiceReuses ==
    \A context \in active_contexts, action \in ActionsOf("Scratch") :
      ScratchedTwice(Started, context, action,
                     ScratchExecute(action, Started, context), Reused)

(* An active context whose workspace the first Scratch replaces and the    *)
(* second does not.                                                        *)
ReusedAfter(S, context, action, first) ==
    /\ Scratchable(S, context, action)
    /\ first.exc = "none"
    /\ first.successor.workspace_link # context.workspace_link
    /\ Reused(first, ScratchExecute(action, first.S, first.successor))

C20_Witness ==
    \E context \in active_contexts, action \in ActionsOf("Scratch") :
      ReusedAfter(Started, context, action, ScratchExecute(action, Started, context))

-----------------------------------------------------------------------------
(* Claims about the workspaces the scheduler stores.                       *)

(* The addresses reached from a set of addresses through links(): an       *)
(* address leads to the links of the content it stands for.                *)
LinksAt(S, a) ==
    IF Dereference(S, a).exc = "none" THEN Range(Links(Dereference(S, a).ret)) ELSE {}

RECURSIVE ReachableFrom(_, _)
ReachableFrom(S, reached) ==
    LET more == reached \cup UNION {LinksAt(S, a) : a \in reached}
    IN IF more = reached THEN reached ELSE ReachableFrom(S, more)

Workspaces(S) == {a \in DOMAIN S.db.content : S.db.content[a].kind = "ws"}

(* C21: in every store the scheduler commits, no workspace reaches its own *)
(* answer_promise or final_workspace_promise through links(): neither is   *)
(* the question, the scratchpad, a member of a subquestion triple or an    *)
(* address reached from those.                                             *)
C21_OwnPromisesNotLinked ==
    \A a \in Workspaces(Sched.S) :
      LET workspace == Sched.S.db.content[a]
          reached == ReachableFrom(Sched.S, Range(Links(workspace)))
      IN /\ workspace.answer_promise \notin reached
         /\ workspace.final_workspace_promise \notin reached

-----------------------------------------------------------------------------
(* Claims about the memoizer and the choice of contexts.                   *)

KnownContexts == active_contexts \cup Range(pending_contexts) \cup DOMAIN memoizer

(* The key of the specification: the memoizer holds a context of the same  *)
(* display.                                                                *)
HandledByDisplay(cache, context) ==
    \E key \in DOMAIN cache : key.display = context.display

(* C22: two contexts are equal exactly when their displays are equal, the  *)
(* memoizer can handle a context exactly when it holds one of the same     *)
(* display, and so no context that the memoizer holds by display is left   *)
(* pending by a resolve_action.                                            *)
C22_IdentifiedByDisplay ==
    /\ \A c1, c2 \in KnownContexts : ContextEq(c1, c2) <=> c1.display = c2.display
    /\ \A c \in KnownContexts : can_handle(memoizer, c) <=> HandledByDisplay(memoizer, c)
    /\ (event.op = "resolve_action" /\ event.exc = "none")
         => \A i \in DOMAIN pending_contexts :
               ~HandledByDisplay(memoizer, pending_contexts[i])

(* C26: choose_context(p) returns a pending context that can advance p;    *)
(* afterwards that context is active and one occurrence of it is gone from *)
(* pending_contexts, and the other pending contexts in their order, the    *)
(* other active contexts, the memoizer and the store are as before; when   *)
(* no pending context can advance p the call raises and changes nothing.   *)
AbleToAdvance(Z, promise) ==
    {i \in DOMAIN Z.pending_contexts :
        can_advance_promise(Z.pending_contexts[i], Z.S, promise) = "True"}

Chosen(Z, r, i) ==
    /\ r.ret = Z.pending_contexts[i]
    /\ r.Z.pending_contexts = RemoveAt(Z.pending_contexts, i)
    /\ r.Z.active_contexts = Z.active_contexts \cup {r.ret}
    /\ r.Z.cache = Z.cache
    /\ r.Z.S = Z.S

ChooseChecked(Z, promise, r) ==
    IF AbleToAdvance(Z, promise) # {}
    THEN r.exc = "none" /\ \E i \in AbleToAdvance(Z, promise) : Chosen(Z, r, i)
    ELSE r.exc # "none" /\ r.Z = Z

C26_ChooseContext ==
    \A promise \in 1..(next_address - 1) :
      ChooseChecked(Sched, promise, choose_context(Sched, promise))

-----------------------------------------------------------------------------
(* scheduling.py: RootQuestionSession.  A session is a record of its       *)
(* current_context, root_answer_promise and root_answer; a call returns    *)
(* the scheduler state and the session after it, the exception raised, and *)
(* the value returned with its kind ("Context", "str" or "None").          *)

(* Lines 242-283.  The recursion of the source does not end when a page is *)
(* reached again from itself: RecursionError.  NoAddr stands for None.     *)
RECURSIVE choose_promise(_, _, _)
RECURSIVE FirstPromise(_, _, _)
choose_promise(S, root, calling) ==
    IF root \in calling THEN [exc |-> "RecursionError", ret |-> NoAddr]
    ELSE
      With(IsFulfilled(S, root), LAMBDA fulfilled :
        IF fulfilled.exc # "none" THEN [exc |-> fulfilled.exc, ret |-> NoAddr]
        ELSE IF ~fulfilled.ret THEN [exc |-> "none", ret |-> root]
        ELSE FirstPromise(S, Links(Dereference(S, root).ret), calling \cup {root}))

FirstPromise(S, children, calling) ==
    IF children = <<>> THEN [exc |-> "none", ret |-> NoAddr]
    ELSE With(choose_promise(S, Head(children), calling), LAMBDA first :
           IF first.exc # "none" \/ first.ret # NoAddr THEN first
           ELSE FirstPromise(S, Tail(children), calling))

(* make_link_texts(root_link, db): no unlocked_locations, so every page is *)
(* unlocked, and no pointer_names, so every page is written in brackets    *)
(* without a name (text_manipulation.py lines 119-122).                    *)
AllAddresses(S) == 1..(S.next - 1)

RECURSIVE AnonymousLinkTexts(_, _, _, _)
AnonymousLinkTexts(order, i, S, link_texts) ==
    IF i = 0 THEN [exc |-> "none", link_texts |-> link_texts]
    ELSE
      With(Dereference(S, order[i]), LAMBDA page :
        IF page.exc # "none" THEN [exc |-> page.exc, link_texts |-> link_texts]
        ELSE
          With(PageToText(page.ret, link_texts), LAMBDA content :
            IF content.exc # "none" THEN [exc |-> content.exc, link_texts |-> link_texts]
            ELSE AnonymousLinkTexts(order, i - 1, S,
                                    Put(link_texts, order[i],
                                        Cat(<<"[">>, Cat(content.text, <<"]">>))))))

make_anonymous_link_texts(root_link, S) ==
    With(visit_unlocked_region(root_link, root_link, S, AllAddresses(S)), LAMBDA visited :
      IF visited.exc # "none" THEN [exc |-> visited.exc, link_texts |-> EmptyMap]
      ELSE
        With(LinksOfPages(S, visited.ret), LAMBDA all :
        With([l \in Range(all) |-> CountIn(all, l)], LAMBDA include_counts :
          IF Get(include_counts, root_link, 0) # 0
          THEN [exc |-> "AssertionError", link_texts |-> EmptyMap]
          ELSE
            With(TopologicalOrder([no_incomings |-> <<root_link>>,
                                   include_counts |-> include_counts, order |-> <<>>],
                                  S, AllAddresses(S)),
                 LAMBDA order :
                   AnonymousLinkTexts(order, Len(order), S, EmptyMap)))))

(* Lines 285-290.                                                          *)
format_root_answer(S, root_answer_promise) ==
    With(make_anonymous_link_texts(root_answer_promise, S), LAMBDA made :
      IF made.exc # "none" THEN [exc |-> made.exc, ret |-> <<"">>]
      ELSE IF ~Has(made.link_texts, root_answer_promise)
      THEN [exc |-> "KeyError", ret |-> <<"">>]
      ELSE [exc |-> "none", ret |-> made.link_texts[root_answer_promise]])

(* Line 143: the answer promise of the workspace that ask_root_question    *)
(* inserted, which is the stored workspace of that question with an empty  *)
(* scratchpad and no subquestions.                                         *)
root_answer_link(S, contents) ==
    S.db.content[
        S.db.canonical_addresses[
            Str(Workspace(S.db.canonical_addresses[
                              Str(create_raw_hypertext(contents, S, EmptyMap).ret)],
                          NoAddr, NoAddr,
                          S.db.canonical_addresses[Str(RawHypertext(<<>>))],
                          <<>>))]].answer_promise

Session(current_context, root_answer_promise, root_answer) ==
    [current_context |-> current_context, root_answer_promise |-> root_answer_promise,
     root_answer |-> root_answer]

SessionReturned(Z, sess, kind, ret) ==
    [Z |-> Z, session |-> sess, exc |-> "none", kind |-> kind, ret |-> ret]
SessionRaised(Z, sess, exc) ==
    [Z |-> Z, session |-> sess, exc |-> exc, kind |-> "None", ret |-> None]

(* Lines 229-240: RootQuestionSession.__init__ once ask_root_question has  *)
(* returned or raised.                                                     *)
Opened(asked) ==
      IF asked.exc # "none" THEN SessionRaised(asked.Z, None, asked.exc)
      ELSE
      With(asked.answer_link, LAMBDA root_answer_promise :
      With(choose_promise(asked.Z.S, root_answer_promise, {}), LAMBDA promise_to_advance :
        IF promise_to_advance.exc # "none"
        THEN SessionRaised(asked.Z, None, promise_to_advance.exc)
        ELSE IF promise_to_advance.ret = NoAddr
        THEN With(format_root_answer(asked.Z.S, root_answer_promise), LAMBDA root_answer :
               IF root_answer.exc # "none"
               THEN SessionRaised(asked.Z, None, root_answer.exc)
               ELSE SessionReturned(asked.Z,
                                    Session(asked.ret, root_answer_promise, root_answer.ret),
                                    "str", root_answer.ret))
        ELSE IF ~IsNone(asked.ret)
        THEN SessionReturned(asked.Z, Session(asked.ret, root_answer_promise, None),
                             "Context", asked.ret)
        ELSE With(choose_context(asked.Z, promise_to_advance.ret), LAMBDA choice :
               IF choice.exc # "none" THEN SessionRaised(asked.Z, None, choice.exc)
               ELSE SessionReturned(choice.Z,
                                    Session(choice.ret, root_answer_promise, None),
                                    "Context", choice.ret))))

(* Lines 228-240: RootQuestionSession.__init__; the set of its results.    *)
new_session(Z, question) == {Opened(asked) : asked \in ask_root_question(Z, question)}

(* Lines 294-303: RootQuestionSession.act once resolve_action has returned *)
(* or raised.                                                              *)
Acted(sess, resolved) ==
      IF resolved.exc # "none" THEN SessionRaised(resolved.Z, sess, resolved.exc)
      ELSE
      With(choose_promise(resolved.Z.S, sess.root_answer_promise, {}),
           LAMBDA promise_to_advance :
        IF promise_to_advance.exc # "none"
        THEN SessionRaised(resolved.Z, sess, promise_to_advance.exc)
        ELSE IF promise_to_advance.ret = NoAddr
        THEN With(format_root_answer(resolved.Z.S, sess.root_answer_promise),
                  LAMBDA root_answer :
               IF root_answer.exc # "none"
               THEN SessionRaised(resolved.Z, sess, root_answer.exc)
               ELSE SessionReturned(resolved.Z,
                                    [sess EXCEPT !.root_answer = root_answer.ret],
                                    "str", root_answer.ret))
        ELSE IF ~IsNone(resolved.ret)
        THEN SessionReturned(resolved.Z, [sess EXCEPT !.current_context = resolved.ret],
                             "Context", resolved.ret)
        ELSE With(choose_context(resolved.Z, promise_to_advance.ret), LAMBDA choice :
               IF choice.exc # "none" THEN SessionRaised(resolved.Z, sess, choice.exc)
               ELSE SessionReturned(choice.Z, [sess EXCEPT !.current_context = choice.ret],
                                    "Context", choice.ret)))

(* Lines 292-303: RootQuestionSession.act; the set of its results.         *)
act(Z, sess, action) ==
    {Acted(sess, resolved) : resolved \in resolve_action(Z, sess.current_context, action)}

(* Lines 213-217: Session.__exit__.                                        *)
exit(Z, sess) ==
    IF ~IsNone(sess.current_context) /\ sess.current_context \in Z.active_contexts
    THEN SessionReturned(relinquish_context(Z, sess.current_context).Z, None, "None", None)
    ELSE SessionReturned(Z, None, "None", None)

-----------------------------------------------------------------------------
(* The scheduler driven through sessions, as main.py and the tests do: a   *)
(* RootQuestionSession is opened on a root question, acts, and is left;    *)
(* another can be opened on the same scheduler afterwards.                 *)

MaxTurns == 5
MaxSessionAddress == 20

(* The last action replies with a bracketed text, "r [$a1]", as the reply  *)
(* "Root [$a1 $a2]." of tests/test_basic.py does.                          *)
SessionActions ==
    UserActions \cup {AskSubquestion("T"), Unlock("$a2"), Reply("r [$a1]")}

SessionStep(op, action, r) ==
    /\ calls < MaxTurns
    /\ r.Z.S.next <= MaxSessionAddress + 1
    /\ calls' = calls + 1
    /\ db' = r.Z.S.db
    /\ next_address' = r.Z.S.next
    /\ active_contexts' = r.Z.active_contexts
    /\ pending_contexts' = r.Z.pending_contexts
    /\ memoizer' = r.Z.cache
    /\ session' = r.session
    /\ event' = [op |-> op, action |-> action, exc |-> r.exc, kind |-> r.kind,
                 ret |-> r.ret]
    /\ UNCHANGED <<tx, db0, last, tokens, log, run>>

NewSession(question) ==
    /\ IsNone(session)
    /\ calls < MaxTurns
    /\ \E r \in new_session(Sched, question) :
          SessionStep("RootQuestionSession", None, r)

Act(action) ==
    /\ ~IsNone(session)
    /\ calls < MaxTurns
    /\ \E r \in act(Sched, session, action) : SessionStep("act", action, r)

Exit ==
    /\ ~IsNone(session)
    /\ SessionStep("exit", None, exit(Sched, session))

SessionNext ==
    \/ \E question \in RootQuestions : NewSession(question)
    \/ \E action \in SessionActions : Act(action)
    \/ Exit

SessionSpec == StoreInit /\ [][SessionNext]_vars

-----------------------------------------------------------------------------
(* Claims about RootQuestionSession.act.                                   *)

(* The promises not yet fulfilled among the pages reached from the root    *)
(* answer promise through links().                                         *)
Unfulfilled(S, root) ==
    {a \in ReachableFrom(S, {root}) :
        IsFulfilled(S, a).exc = "none" /\ ~IsFulfilled(S, a).ret}

CanAdvanceSome(context, S, promises) ==
    \E promise \in promises : can_advance_promise(context, S, promise) = "True"

ActChecked(sess, resolved, r) ==
    resolved.exc = "none" =>
       /\ r.exc = "none"
       /\ r.Z.S = resolved.Z.S
       /\ IF Unfulfilled(resolved.Z.S, sess.root_answer_promise) = {}
          THEN /\ r.kind = "str"
               /\ r.ret = format_root_answer(resolved.Z.S, sess.root_answer_promise).ret
          ELSE /\ r.kind = "Context"
               /\ IF ~IsNone(resolved.ret) THEN r.ret = resolved.ret
                  ELSE /\ r.ret \in Range(resolved.Z.pending_contexts)
                       /\ CanAdvanceSome(r.ret, resolved.Z.S,
                                         Unfulfilled(resolved.Z.S, sess.root_answer_promise))

(* C23: whenever the action of an act commits, act returns the formatted   *)
(* root answer if no unfulfilled promise is reachable from the root answer *)
(* promise through links(), and otherwise a context: the successor of the  *)
(* action if it has one, else a pending context that can advance an        *)
(* unfulfilled promise reachable from the root answer.                     *)
C23_ActReturns ==
    ~IsNone(session) =>
       \A action \in SessionActions :
          \A resolved \in resolve_action(Sched, session.current_context, action) :
             ActChecked(session, resolved, Acted(session, resolved))

Blocked(sess, resolved) ==
    /\ resolved.exc = "none"
    /\ IsNone(resolved.ret)
    /\ Unfulfilled(resolved.Z.S, sess.root_answer_promise) # {}

(* C24: whenever a committed action leaves no successor and a promise      *)
(* reachable from the root answer is unfulfilled, act returns a context    *)
(* taken from pending_contexts that can advance the promise selected by    *)
(* choose_promise, and raises nothing.                                     *)
C24_NeverStarved ==
    ~IsNone(session) =>
       \A action \in SessionActions :
        \A resolved \in resolve_action(Sched, session.current_context, action) :
          LET r == Acted(session, resolved)
          IN  Blocked(session, resolved) =>
                 /\ r.exc = "none" /\ r.kind = "Context"
                 /\ r.ret \in Range(resolved.Z.pending_contexts)
                 /\ can_advance_promise(
                        r.ret, resolved.Z.S,
                        choose_promise(resolved.Z.S, session.root_answer_promise, {}).ret)
                     = "True"

Subquestions(S, context) == Dereference(S, context.workspace_link).ret.subquestions

AtRoot(S, sess) ==
    /\ Dereference(S, sess.current_context.workspace_link).exc = "none"
    /\ Dereference(S, sess.current_context.workspace_link).ret.answer_promise
          = sess.root_answer_promise

StillPending(S, context) ==
    {k \in DOMAIN Subquestions(S, context) :
        ~IsFulfilled(S, Subquestions(S, context)[k][2]).ret}

IsWorkspaceOf(S, context, triple) ==
    LET workspace == Dereference(S, context.workspace_link).ret
    IN  /\ workspace.question_link = triple[1]
        /\ workspace.answer_promise = triple[2]
        /\ workspace.final_workspace_promise = triple[3]

(* C25: when the current context is a context of the root question that    *)
(* has asked N subquestions, then for every k in 1..N whose answer is      *)
(* still pending, act(Unlock($ak)) returns a context of the workspace of   *)
(* subquestion k, the one whose answer the unlock waits for.               *)
C25_Laziness ==
    ~IsNone(session) /\ session.current_context \in active_contexts
                     /\ AtRoot(Sched.S, session) =>
       \A k \in StillPending(Sched.S, session.current_context) :
        \A r \in act(Sched, session, Unlock("$a" \o ToString(k))) :
              /\ r.exc = "none" /\ r.kind = "Context"
              /\ IsWorkspaceOf(r.Z.S, r.ret, Subquestions(Sched.S, session.current_context)[k])

-----------------------------------------------------------------------------
(* Claims about the state resolve_action leaves.                           *)

IsSubsequence(short, long) ==
    \E at \in [DOMAIN short -> DOMAIN long] :
       /\ \A i \in DOMAIN short : long[at[i]] = short[i]
       /\ \A i, j \in DOMAIN short : i < j => at[i] < at[j]

Unhandled(cache, contexts) == SelectSeq(contexts, LAMBDA c : ~can_handle(cache, c))

(* Lines 182-186 after lines 158-179.  The work queue of the call is the   *)
(* contexts the action returned, last one first, then the contexts that    *)
(* were pending, then the contexts the automated actions returned, in the  *)
(* order in which they returned them; each is processed once, and the      *)
(* holding list is those of them that the memoizer does not handle.        *)
Resolved(Z, start, action, first, r) ==
    /\ start \notin r.Z.active_contexts
    /\ r.ret = first.successor
    /\ r.Z.active_contexts
         = (Z.active_contexts \ {start}) \cup (IF IsNone(r.ret) THEN {} ELSE {r.ret})
    /\ Has(r.Z.cache, start) /\ r.Z.cache[start] = action
    /\ \A key \in DOMAIN r.Z.cache \ {start} : Has(Z.cache, key) /\ r.Z.cache[key] = Z.cache[key]
    /\ DOMAIN Z.cache \subseteq DOMAIN r.Z.cache
    /\ r.Z.pending_contexts
         = Unhandled(r.Z.cache,
                     Reverse(first.other_contexts) \o Z.pending_contexts \o r.produced)

(* C29: after resolve_action(start, a) returns for an active start, start  *)
(* is not active, the successor (if any) is active and the active set is   *)
(* otherwise what it was, memoizer[start] = a with the other entries kept, *)
(* and pending_contexts is exactly the list of the processed contexts that *)
(* the memoizer cannot handle: of the contexts the action returned, of the *)
(* contexts that were pending and of the contexts the automated actions    *)
(* returned, in the order in which the loop took them.                     *)
C29_ResolveActionState ==
    \A start \in active_contexts, action \in UserActions :
       \A r \in resolve_action(Sched, start, action) :
           r.exc = "none" =>
              Resolved(Sched, start, action,
                       Execute(action, [Sched.S EXCEPT !.tx = NewTx], start), r)

(* A resolve_action whose action returns a context that the memoizer       *)
(* cannot handle and whose loop automates a pending context, and a state   *)
(* after a resolve_action that returned a successor and left a context     *)
(* pending.                                                                *)
C29_Witness ==
    /\ \E start \in active_contexts, action \in UserActions :
          \E r \in resolve_action(Sched, start, action) :
             /\ r.exc = "none"
             /\ r.produced # <<>>
             /\ \E i \in DOMAIN r.Z.pending_contexts :
                   r.Z.pending_contexts[i] \notin Range(pending_contexts)
    /\ event.op = "resolve_action" /\ event.exc = "none"
    /\ ~IsNone(event.ret) /\ event.ret \in active_contexts
    /\ event.ret.parent \notin active_contexts
    /\ Has(memoizer, event.ret.parent)
    /\ pending_contexts # <<>>

(* The pending contexts left by the automation loop of resolve_action when *)
(* its work queue starts as the contexts the action returned, in the order *)
(* returned, followed by the pending contexts.                             *)
PendingInOrder(Z, start, action, first) ==
    Automate(first.other_contexts \o Z.pending_contexts, first.S,
             remember(Z.cache, start, action), <<>>, first.delivered, <<>>
            ).un_automatable_contexts

(* C30: when resolve_action returns, pending_contexts is the list of the   *)
(* contexts no automator handled, in the order of a work queue that starts *)
(* as the contexts the action returned, in the order returned, followed by *)
(* the previously pending contexts, is taken from the front, and gets the  *)
(* contexts of automated actions at the back.                              *)
C30_QueueOrder ==
    \A start \in active_contexts, action \in SessionActions :
       \A r \in resolve_action(Sched, start, action) :
           r.exc = "none" =>
              r.Z.pending_contexts
                = PendingInOrder(Sched, start, action,
                                 Execute(action, [Sched.S EXCEPT !.tx = NewTx], start))

-----------------------------------------------------------------------------
(* resolve_action step by step: the call begins (assertion, remember, the  *)
(* action's execute, the work queue), each iteration of its while loop is  *)
(* a step, and it finishes with the commit; an exception at any step ends  *)
(* the call with forget.  The other scheduler calls happen between runs.   *)

(* A mutant of AutomateStep that puts a context no automator handles back  *)
(* at the end of the work queue.                                           *)
AutomateStep_Requeues(possibly_automatable_contexts, S, cache, un_automatable_contexts, delivered, produced) ==
    [possibly_automatable_contexts |->
         Tail(possibly_automatable_contexts) \o <<Head(possibly_automatable_contexts)>>,
     S |-> S, un_automatable_contexts |-> un_automatable_contexts,
     delivered |-> delivered, produced |-> produced, exc |-> "none"]

(* Lines 164-179: the iteration as a step of the call.                     *)
AutomateStep(possibly_automatable_contexts, S, cache, un_automatable_contexts, delivered, produced) ==
    Iteration(possibly_automatable_contexts, S, cache, un_automatable_contexts,
              delivered, produced)

(* The local state of a call of resolve_action between its steps; before   *)
(* is the scheduler as it was when the call was made, ahead of line 155.   *)
Run(starting_context, action, first) ==
    [starting_context |-> starting_context, action |-> action,
     before |-> Sched, successor |-> first.successor,
     possibly_automatable_contexts |-> Reverse(first.other_contexts) \o pending_contexts,
     S |-> first.S, un_automatable_contexts |-> <<>>,
     delivered |-> first.delivered, produced |-> <<>>]

MaxRuns == 4

(* What a step leaves: the scheduler state, the event and the run.         *)
Outcome(Z, e, r) == [Z |-> Z, event |-> e, run |-> r]

Ended(op, r) == Outcome(r.Z, Event(op, r), None)

Apply(outcome) ==
    /\ db' = outcome.Z.S.db
    /\ next_address' = outcome.Z.S.next
    /\ active_contexts' = outcome.Z.active_contexts
    /\ pending_contexts' = outcome.Z.pending_contexts
    /\ memoizer' = outcome.Z.cache
    /\ event' = outcome.event
    /\ run' = outcome.run
    /\ UNCHANGED <<tx, db0, last, tokens, log, session>>

Between(op, r) ==
    /\ IsNone(run)
    /\ calls < MaxRuns
    /\ r.Z.S.next <= MaxAddress + 1
    /\ calls' = calls + 1
    /\ Apply(Ended(op, r))

(* Lines 153-161.  The accumulator's resolve_promise extends a promisee    *)
(* list of the base in place (datastore.py 149-150), so the base may       *)
(* change before the commit: each step leaves it in db.                    *)
Begun(starting_context, action) ==
    IF starting_context \notin active_contexts
    THEN Ended("resolve_action", Raised(Sched, "AssertionError", <<>>, Sched, NoTx))
    ELSE
    With(Execute(action, [Sched.S EXCEPT !.tx = NewTx], starting_context), LAMBDA first :
      IF first.exc # "none"
      THEN Ended("resolve_action",
                 Failed(Sched, starting_context,
                        remember(memoizer, starting_context, action),
                        first.S, first.exc, <<>>))
      ELSE Outcome([Sched EXCEPT !.S.db = first.S.db,
                                 !.cache = remember(memoizer, starting_context, action)],
                   [op |-> "resolve_action", exc |-> "running"],
                   Run(starting_context, action, first)))

ResolveBegin(starting_context, action) ==
    /\ IsNone(run)
    /\ calls < MaxRuns
    /\ calls' = calls + 1
    /\ Apply(Begun(starting_context, action))

(* Lines 163-179.                                                          *)
Iterated ==
    With(AutomateStep(run.possibly_automatable_contexts, run.S, memoizer,
                      run.un_automatable_contexts, run.delivered, run.produced),
         LAMBDA step :
      IF step.exc # "none"
      THEN Ended("resolve_action",
                 Failed(run.before, run.starting_context,
                        memoizer, step.S, step.exc, step.produced))
      ELSE Outcome([Sched EXCEPT !.S.db = step.S.db], event,
                   [run EXCEPT
                      !.possibly_automatable_contexts = step.possibly_automatable_contexts,
                      !.S = step.S,
                      !.un_automatable_contexts = step.un_automatable_contexts,
                      !.delivered = step.delivered,
                      !.produced = step.produced]))

Iterate ==
    /\ ~IsNone(run)
    /\ run.possibly_automatable_contexts # <<>>
    /\ UNCHANGED calls
    /\ Apply(Iterated)

(* Lines 181-186.                                                          *)
Finished(order) ==
    With(TxCommit(run.S, order), LAMBDA committed :
      IF committed.exc # "none"
      THEN Ended("resolve_action",
                 Failed(run.before, run.starting_context,
                        memoizer, committed.S, committed.exc, run.produced))
      ELSE Ended("resolve_action",
                 Returned([S |-> [committed.S EXCEPT !.tx = NoTx],
                           active_contexts |->
                             (active_contexts \ {run.starting_context})
                             \cup (IF IsNone(run.successor) THEN {}
                                   ELSE {run.successor}),
                           pending_contexts |-> run.un_automatable_contexts,
                           cache |-> memoizer],
                          run.successor, run.delivered, run.produced)))

Finish ==
    /\ ~IsNone(run)
    /\ run.possibly_automatable_contexts = <<>>
    /\ UNCHANGED calls
    /\ \E order \in SetOrders(run.S.tx.resolved_promises) : Apply(Finished(order))

RunNext ==
    \/ \E contents \in RootQuestions :
          /\ IsNone(run) /\ calls < MaxRuns
          /\ \E r \in ask_root_question(Sched, contents) :
                Between("ask_root_question", r)
    \/ \E promise \in 1..(next_address - 1) :
          Between("choose_context", choose_context(Sched, promise))
    \/ \E c \in HeldContexts :
          Between("relinquish_context", relinquish_context(Sched, c))
    \/ \E c \in StartingContexts, action \in UserActions : ResolveBegin(c, action)
    \/ Iterate
    \/ Finish

CanIterate == ~IsNone(run) /\ run.possibly_automatable_contexts # <<>>
CanFinish == ~IsNone(run) /\ run.possibly_automatable_contexts = <<>>

(* The while loop and the commit are the code of one call: once begun,     *)
(* each is executed if it stays possible.  This is weak fairness of        *)
(* Iterate and of Finish, WF_vars(Iterate) /\ WF_vars(Finish), with their  *)
(* enabling conditions written out: an iteration always changes the work   *)
(* queue or ends the run, and Finish always ends it.                       *)
RunSpec ==
    /\ StoreInit /\ [][RunNext]_vars
    /\ ([]<>(~CanIterate) \/ []<><<Iterate>>_vars)
    /\ ([]<>(~CanFinish) \/ []<><<Finish>>_vars)

(* The rest of a run, computed by the loop as a whole, is what the call    *)
(* computes from its beginning.                                            *)
RunAgrees ==
    ~IsNone(run) =>
       LET rest == Automate(run.possibly_automatable_contexts, run.S, memoizer,
                            run.un_automatable_contexts, run.delivered, run.produced)
       IN  \A r \in resolve_action(run.before, run.starting_context, run.action) :
           IF r.exc = "none"
           THEN /\ rest.exc = "none"
                /\ rest.un_automatable_contexts = r.Z.pending_contexts
                /\ \E order \in SetOrders(rest.S.tx.resolved_promises) :
                      /\ TxCommit(rest.S, order).exc = "none"
                      /\ TxCommit(rest.S, order).S.db = r.Z.S.db
                /\ rest.delivered = r.delivered /\ rest.produced = r.produced
                /\ run.successor = r.ret
           ELSE /\ \/ rest.exc = r.exc
                   \/ /\ rest.exc = "none"
                      /\ \E order \in SetOrders(rest.S.tx.resolved_promises) :
                            TxCommit(rest.S, order).exc = r.exc
                /\ rest.produced = r.produced

(* A context the automated actions of the running call have returned has   *)
(* the display and the workspace of a context on its own parent chain: the *)
(* replay has regenerated that context and the call goes on.               *)
Regenerated ==
    /\ ~IsNone(run)
    /\ \E c \in Range(run.produced) : OwnAncestorByDisplay(c)

(* The own-ancestor check of line 176 has ended a call.                    *)
CutByCheck == event.op = "resolve_action" /\ event.exc = InfiniteLoop

(* The contexts the scheduler and the running call hold.                   *)
RunContexts ==
    active_contexts \cup Range(pending_contexts) \cup DOMAIN memoizer
    \cup (IF IsNone(run) THEN {}
          ELSE Range(run.possibly_automatable_contexts)
               \cup Range(run.un_automatable_contexts) \cup Range(run.produced))

(* C28 as stated: every call of resolve_action that has begun ends, by     *)
(* committing or by raising, and a replay that regenerates a context       *)
(* already on its own parent chain is cut by the own-ancestor check: no    *)
(* call goes on with such a context.                                       *)
C28_ResolveActionTerminates ==
    /\ (~IsNone(run)) ~> IsNone(run)
    /\ [](~Regenerated)

(* C28 amended: every call of resolve_action that has begun ends, by       *)
(* committing or by raising; the own-ancestor check never ends one,        *)
(* because no context equals a context on its own parent chain: equality   *)
(* of contexts compares the parents.                                       *)
C28_TerminatesWithoutCheck ==
    /\ (~IsNone(run)) ~> IsNone(run)
    /\ [](~CutByCheck)
    /\ [](\A c \in RunContexts : ~is_own_ancestor(c, Sched.S))

(* A run that has regenerated a context and has taken it from the work     *)
(* queue: the memoizer cannot handle it, and it is on the holding list.    *)
C28_Witness ==
    /\ Regenerated
    /\ \E c \in Range(run.un_automatable_contexts) : OwnAncestorByDisplay(c)

-----------------------------------------------------------------------------
(* The scheduler calls with a record of how long each pending context has  *)
(* been pending and of how often choose_context preferred a context that   *)
(* became pending after it.  The record is kept in event: since maps a     *)
(* pending context to the number of the call that made it pending,         *)
(* overtaken to the number of calls choose_context(p) that returned a      *)
(* context pending since a later call while this one could advance p.      *)

MaxFairCalls == 6
MaxFairAddress == 16
MaxOvertaken == 1

Since(e) == IF "since" \in DOMAIN e THEN e.since ELSE EmptyMap
Overtaken(e) == IF "overtaken" \in DOMAIN e THEN e.overtaken ELSE EmptyMap

StillPendingContext(c) == c \in Range(pending_contexts) /\ Has(Since(event), c)

Overtakes(op, r, promise, c) ==
    /\ op = "choose_context" /\ r.exc = "none"
    /\ c # r.ret
    /\ StillPendingContext(c) /\ StillPendingContext(r.ret)
    /\ can_advance_promise(c, Sched.S, promise) = "True"
    /\ Since(event)[r.ret] > Since(event)[c]

FairStep(op, r, promise) ==
    /\ calls < MaxFairCalls
    /\ r.Z.S.next <= MaxFairAddress + 1
    /\ calls' = calls + 1
    /\ db' = r.Z.S.db
    /\ next_address' = r.Z.S.next
    /\ active_contexts' = r.Z.active_contexts
    /\ pending_contexts' = r.Z.pending_contexts
    /\ memoizer' = r.Z.cache
    /\ event' = [op |-> op, exc |-> r.exc, ret |-> r.ret,
                 since |->
                   [c \in Range(r.Z.pending_contexts) |->
                      IF StillPendingContext(c) THEN Since(event)[c] ELSE calls + 1],
                 overtaken |->
                   [c \in Range(r.Z.pending_contexts) |->
                      (IF StillPendingContext(c) THEN Get(Overtaken(event), c, 0) ELSE 0)
                      + (IF Overtakes(op, r, promise, c) THEN 1 ELSE 0)]]
    /\ UNCHANGED <<tx, db0, last, tokens, log, session, run>>

FairActions == {AskSubquestion("S"), Scratch("n")}

FairNext ==
    \/ \E contents \in RootQuestions :
          /\ calls < MaxFairCalls
          /\ \E r \in ask_root_question(Sched, contents) :
                FairStep("ask_root_question", r, NoAddr)
    \/ \E c \in active_contexts, action \in FairActions :
          /\ calls < MaxFairCalls
          /\ \E r \in resolve_action(Sched, c, action) :
                FairStep("resolve_action", r, NoAddr)
    \/ \E promise \in 1..(next_address - 1) :
          FairStep("choose_context", choose_context(Sched, promise), promise)
    \/ \E c \in HeldContexts :
          FairStep("relinquish_context", relinquish_context(Sched, c), NoAddr)

FairSpec == StoreInit /\ [][FairNext]_vars

(* C27, in the form a finite run can refute: a pending context is not      *)
(* passed over more than MaxOvertaken times, where it is passed over when  *)
(* choose_context(p) returns a context that became pending after it while  *)
(* it is pending and can advance p.                                        *)
C27_NotStarved ==
    \A c \in DOMAIN Overtaken(event) : Overtaken(event)[c] <= MaxOvertaken

-----------------------------------------------------------------------------
(* The scheduler driven for MaxAsks calls, for the claims about questions  *)
(* that are asked again: in each state reached, the question is asked      *)
(* once more.                                                              *)
MaxAsks == 4

AskNext == calls < MaxAsks /\ SchedNext

AskSpec == StoreInit /\ [][AskNext]_vars

(* C35: relinquish_context(c) with c active leaves c not active and last   *)
(* in pending_contexts, and every other active or pending context, the     *)
(* memoizer and the store as they were; with c not active it fails and     *)
(* pending_contexts is left as it was.                                     *)
C35_Step ==
    event'.op = "relinquish_context" =>
        IF event'.exc = "none"
        THEN \E c \in active_contexts :
                /\ active_contexts' = active_contexts \ {c}
                /\ pending_contexts' = Append(pending_contexts, c)
                /\ memoizer' = memoizer
                /\ db' = db
                /\ next_address' = next_address
        ELSE /\ pending_contexts' = pending_contexts
             /\ active_contexts' = active_contexts
             /\ memoizer' = memoizer
             /\ db' = db
             /\ next_address' = next_address

C35_Relinquish == [][C35_Step]_vars

(* C31: between scheduler operations no context in pending_contexts is one *)
(* the memoizer can handle.                                                *)
C31_PendingNotAutomatable ==
    \A i \in DOMAIN pending_contexts : ~can_handle(memoizer, pending_contexts[i])

(* C39: no context is both active and pending.                             *)
C39_ActiveNotPending ==
    active_contexts \cap Range(pending_contexts) = {}

-----------------------------------------------------------------------------
(* Claims about ask_root_question.                                         *)

(* Line 141: the address db.insert returned for the root workspace, found  *)
(* by its content in the store after the call.                             *)
new_workspace_link(S, contents) ==
    S.db.canonical_addresses[
        Str(Workspace(S.db.canonical_addresses[
                          Str(create_raw_hypertext(contents, S, EmptyMap).ret)],
                      NoAddr, NoAddr,
                      S.db.canonical_addresses[Str(RawHypertext(<<>>))], <<>>))]

AskedRootQuestions == RootQuestions \cup {"S"}

RootAsked(Z, contents, r) ==
    LET root == DefaultContext(new_workspace_link(r.Z.S, contents), r.Z.S, None).ret IN
    /\ \/ IsNone(r.ret)
       \/ r.ret \in r.Z.active_contexts /\ ~can_handle(r.Z.cache, r.ret)
    /\ r.answer_link
       = Dereference(r.Z.S, new_workspace_link(r.Z.S, contents)).ret.answer_promise
    /\ IF can_handle(Z.cache, root)
       THEN r.ret # root
       ELSE /\ r.ret = root
            /\ r.Z.active_contexts = Z.active_contexts \cup {root}
            /\ r.Z.pending_contexts = Z.pending_contexts
            /\ r.Z.cache = Z.cache

(* C32: ask_root_question adds the root context to active_contexts and     *)
(* replays memoized actions while the memoizer can handle the current      *)
(* context: it returns no context, or an active context the memoizer       *)
(* cannot handle, and the address it returns is the answer promise of the  *)
(* root workspace.                                                         *)
C32_AskRootQuestion ==
    \A contents \in AskedRootQuestions :
        \A r \in ask_root_question(Sched, contents) :
           r.exc = "none" => RootAsked(Sched, contents, r)

(* An ask_root_question has replayed the memoized action of the root       *)
(* context and returned its successor.                                     *)
C32_Witness ==
    /\ event.op = "ask_root_question"
    /\ event.exc = "none"
    /\ \E contents \in RootQuestions :
          can_handle(memoizer,
                     DefaultContext(new_workspace_link(Sched.S, contents),
                                    Sched.S, None).ret)
    /\ ~IsNone(event.ret)
    /\ event.ret \in active_contexts
    /\ ~can_handle(memoizer, event.ret)

-----------------------------------------------------------------------------
(* Claims about the names of a context.                                    *)

TripleNames(n) ==
    UNION {{"$q" \o ToString(i), "$a" \o ToString(i), "$w" \o ToString(i)} : i \in 1..n}

FirstAt(seq, x) ==
    CHOOSE i \in DOMAIN seq : seq[i] = x /\ \A j \in 1..(i - 1) : seq[j] # x

(* The links of the pages of the unlocked region, in the order of the walk. *)
Walked(S, c) ==
    LinksOfPages(S, visit_unlocked_region(c.workspace_link, c.workspace_link, S,
                                          c.unlocked_locations).ret)

Named(S, c) ==
    LET names == _name_pointers(c.workspace_link, c.unlocked_locations,
                                c.workspace_link, S)
        subs == Dereference(S, c.workspace_link).ret.subquestions
        n == Len(subs)
        triples == UNION {{subs[i][1], subs[i][2], subs[i][3]} : i \in 1..n}
        name_pointers == names.ret.backward_pointers
        k == Cardinality(DOMAIN name_pointers \ TripleNames(n))
        numbered(j) == name_pointers["$" \o ToString(j)]
        walked == Walked(S, c)
    IN names.exc = "none" =>
       /\ TripleNames(n) \subseteq DOMAIN name_pointers
       /\ \A i \in 1..n :
            /\ name_pointers["$q" \o ToString(i)] = subs[i][1]
            /\ name_pointers["$a" \o ToString(i)] = subs[i][2]
            /\ name_pointers["$w" \o ToString(i)] = subs[i][3]
       /\ DOMAIN name_pointers \ TripleNames(n) = {"$" \o ToString(j) : j \in 1..k}
       /\ \A j \in 1..k : numbered(j) \notin triples /\ numbered(j) \in Range(walked)
       /\ \A i, j \in 1..k :
            i < j => /\ numbered(i) # numbered(j)
                     /\ FirstAt(walked, numbered(i)) < FirstAt(walked, numbered(j))
       /\ \A i \in DOMAIN walked :
            \E name \in DOMAIN name_pointers : name_pointers[name] = walked[i]

(* C33: for every context over a workspace with n subquestions the name    *)
(* map has $qi, $ai and $wi for every i in 1..n, each the corresponding    *)
(* address of subquestion i; the numeric names are $1..$k without gaps,    *)
(* given in the order of the walk of the unlocked region to pairwise       *)
(* distinct addresses that are in no subquestion triple; and every address *)
(* in links() of a visited unlocked page has a name.                       *)
C33_NamePointers == \A c \in KnownContexts : Named(Sched.S, c)

(* A context with a subquestion and a numeric name for a link that is not  *)
(* the question or the scratchpad of its workspace.                        *)
C33_Witness ==
    \E c \in KnownContexts :
       LET names == _name_pointers(c.workspace_link, c.unlocked_locations,
                                   c.workspace_link, Sched.S)
       IN /\ names.exc = "none"
          /\ names.ret.count >= 3
          /\ Len(Dereference(Sched.S, c.workspace_link).ret.subquestions) >= 1

-----------------------------------------------------------------------------
(* Claims about Workspace.links().                                         *)

(* The sequence the claim describes, entry by entry.                       *)
LinksEntry(workspace, i) ==
    LET before == IF workspace.predecessor_link # NoAddr THEN 1 ELSE 0 IN
    IF i <= before THEN workspace.predecessor_link
    ELSE IF i = before + 1 THEN workspace.question_link
    ELSE IF i = before + 2 THEN workspace.scratchpad_link
    ELSE workspace.subquestions[((i - before - 3) \div 3) + 1][((i - before - 3) % 3) + 1]

LinksAsClaimed(workspace) ==
    LET links == Links(workspace) IN
    /\ Len(links) = (IF workspace.predecessor_link # NoAddr THEN 1 ELSE 0)
                    + 2 + 3 * Len(workspace.subquestions)
    /\ \A i \in DOMAIN links : links[i] = LinksEntry(workspace, i)

(* C34: Workspace.links() is the predecessor if present, the question, the *)
(* scratchpad, then q, a, w of each subquestion in order; the workspace's  *)
(* own answer_promise and final_workspace_promise contribute no entry.     *)
(* Every stored workspace is taken as it is, with each address as its      *)
(* predecessor, and with each address in place of either promise.          *)
C34_WorkspaceLinks ==
    \A a \in Workspaces(Sched.S) :
       LET workspace == Sched.S.db.content[a] IN
       /\ LinksAsClaimed(workspace)
       /\ \A p \in 0..(next_address - 1) :
            /\ LinksAsClaimed([workspace EXCEPT !.predecessor_link = p])
            /\ Links([workspace EXCEPT !.answer_promise = p]) = Links(workspace)
            /\ Links([workspace EXCEPT !.final_workspace_promise = p]) = Links(workspace)

(* A stored workspace with two subquestions, and one whose own answer      *)
(* promise is an entry of links() as a member of a subquestion triple.     *)
C34_Witness ==
    /\ \E a \in Workspaces(Sched.S) : Len(Sched.S.db.content[a].subquestions) >= 2
    /\ \E a \in Workspaces(Sched.S) :
          Sched.S.db.content[a].answer_promise \in Range(Links(Sched.S.db.content[a]))

-----------------------------------------------------------------------------
(* C36: can_advance_promise(c, p) ends with true or false in every store   *)
(* the scheduler reaches, for every context it holds and every address p,  *)
(* also when contexts are registered on each other's promises in a cycle   *)
(* and p is no promise of a workspace on the cycle.                        *)
C36_CanAdvanceTerminates ==
    \A c \in KnownContexts : \A p \in 1..(next_address - 1) :
        can_advance_promise(c, Sched.S, p) \in {"True", "False"}

-----------------------------------------------------------------------------
(* Claims about the two promises of a workspace along its successors.      *)

PromisePair(S, workspace_link) ==
    <<Dereference(S, workspace_link).ret.answer_promise,
      Dereference(S, workspace_link).ret.final_workspace_promise>>

(* The successor returned by a Scratch or an AskSubquestion (the other     *)
(* actions return none) has its starting context as parent and the         *)
(* promises of that context's workspace.                                   *)
SuccessorKeepsPromises ==
    (/\ event.op = "resolve_action"
     /\ event.exc = "none"
     /\ ~IsNone(event.ret))
    => PromisePair(Sched.S, event.ret.workspace_link)
       = PromisePair(Sched.S, event.ret.parent.workspace_link)

(* A chain of successors is among the workspaces of one question.          *)
ChainKeepsPromises ==
    \A a, b \in Workspaces(Sched.S) :
       Sched.S.db.content[a].question_link = Sched.S.db.content[b].question_link
       => PromisePair(Sched.S, a) = PromisePair(Sched.S, b)

(* The triple an asker stores carries the promises of the workspaces of    *)
(* the question asked.                                                     *)
TripleCarriesPromises ==
    \A a, b \in Workspaces(Sched.S) :
       \A i \in DOMAIN Sched.S.db.content[a].subquestions :
          Sched.S.db.content[b].question_link = Sched.S.db.content[a].subquestions[i][1]
          => PromisePair(Sched.S, b)
             = <<Sched.S.db.content[a].subquestions[i][2],
                 Sched.S.db.content[a].subquestions[i][3]>>

(* A Reply resolves the promises of its workspace that are pending, and no *)
(* other promise.                                                          *)
ReplyResolvesPair(S, context, r) ==
    r.exc = "none" =>
       r.S.tx.resolved_promises
       = {p \in Range(PromisePair(S, context.workspace_link)) : ~IsFulfilled(S, p).ret}

(* C37: every successor workspace of a Scratch or an AskSubquestion has    *)
(* the answer_promise and final_workspace_promise of the workspace it was  *)
(* derived from, so the pair is the same along a chain of successors, and  *)
(* a Reply from a context of the chain resolves the promises stored in the *)
(* asker's subquestion triple.                                             *)
C37_PromisesAlongSuccessors ==
    /\ SuccessorKeepsPromises
    /\ ChainKeepsPromises
    /\ TripleCarriesPromises
    /\ \A context \in active_contexts, action \in ActionsOf("Reply") :
          ReplyResolvesPair(Started, context, ReplyExecute(action, Started, context))

(* The successor of a successor has just been returned in a store where an *)
(* asker's triple names the promises of a sub-workspace with a context     *)
(* that can reply.                                                         *)
C37_Witness ==
    /\ event.op = "resolve_action"
    /\ event.exc = "none"
    /\ ~IsNone(event.ret)
    /\ ~IsNone(event.ret.parent.parent)
    /\ PromisePair(Sched.S, event.ret.workspace_link)
       = PromisePair(Sched.S, event.ret.parent.parent.workspace_link)
    /\ \E a \in Workspaces(Sched.S), context \in active_contexts :
          /\ a # context.workspace_link
          /\ \E i \in DOMAIN Sched.S.db.content[a].subquestions :
                <<Sched.S.db.content[a].subquestions[i][2],
                  Sched.S.db.content[a].subquestions[i][3]>>
                = PromisePair(Sched.S, context.workspace_link)
          /\ \E action \in ActionsOf("Reply") :
                ReplyExecute(action, Started, context).S.tx.resolved_promises
                = Range(PromisePair(Sched.S, context.workspace_link))

-----------------------------------------------------------------------------
(* Claims about AskSubquestion of a question that was asked before.        *)

(* The sub-workspace AskSubquestion builds, as far as str() shows it.      *)
SubWorkspaceKey(S, question) ==
    Str(Workspace(S.db.canonical_addresses[Str(question)], NoAddr, NoAddr,
                  S.db.canonical_addresses[Str(RawHypertext(<<>>))], <<>>))

(* The content of that sub-workspace is stored when the action begins.     *)
SubWorkspaceStored(S, question) ==
    /\ Has(S.db.canonical_addresses, Str(question))
    /\ Has(S.db.canonical_addresses, Str(RawHypertext(<<>>)))
    /\ Has(S.db.canonical_addresses, SubWorkspaceKey(S, question))

Owned(S, p) ==
    \E a \in 1..(S.next - 1) :
       /\ Dereference(S, a).exc = "none"
       /\ Dereference(S, a).ret.kind = "ws"
       /\ \/ p \in {Dereference(S, a).ret.answer_promise,
                    Dereference(S, a).ret.final_workspace_promise}
          \/ p \in Range(Links(Dereference(S, a).ret))

AskedAgain(S, context, action, r) ==
    LET question ==
            create_raw_hypertext(action.text, S,
                name_pointers_for_workspace(context, context.workspace_link, S).ret).ret
        existing == S.db.canonical_addresses[SubWorkspaceKey(S, question)]
        successor_workspace == Dereference(r.S, r.successor.workspace_link).ret
    IN /\ r.exc = "none"
       /\ Len(r.other_contexts) = 1
       /\ r.other_contexts[1].workspace_link = existing
       /\ Dereference(r.S, existing).ret = Dereference(S, existing).ret
       /\ \A a \in 1..(r.S.next - 1) :
            (/\ Dereference(r.S, a).exc = "none"
             /\ Str(Dereference(r.S, a).ret) = SubWorkspaceKey(S, question))
            => Canonicalize(r.S, a).ret = existing
       /\ successor_workspace.subquestions[Len(successor_workspace.subquestions)]
            = <<S.db.canonical_addresses[Str(question)],
                S.db.content[existing].answer_promise,
                S.db.content[existing].final_workspace_promise>>
       /\ TwoPromises(S, r)
       /\ \A p \in DOMAIN r.S.tx.new_promises :
            /\ ~IsFulfilled(r.S, p).ret
            /\ r.S.tx.new_promises[p] = <<>>
            /\ ~Owned(r.S, p)

(* C38: AskSubquestion of a question whose fresh sub-workspace (the        *)
(* question, an empty scratchpad, no subquestions) is stored makes no      *)
(* second workspace: the spawned context is on the stored workspace, the   *)
(* triple appended to the asker carries the stored workspace's answer and  *)
(* final-workspace promises, and the two promises the action made stay     *)
(* pending and belong to no workspace.                                     *)
C38_AskSubquestionAgain ==
    \A context \in active_contexts, action \in ActionsOf("AskSubquestion") :
       LET question ==
               create_raw_hypertext(action.text, Started,
                   name_pointers_for_workspace(context, context.workspace_link,
                                               Started).ret).ret
       IN (Askable(Started, context, action) /\ SubWorkspaceStored(Started, question))
          => AskedAgain(Started, context, action,
                        AskSubquestionExecute(action, Started, context))

(* An active context with a parent asks a question whose sub-workspace is  *)
(* stored and is not its own workspace.                                    *)
C38_Witness ==
    \E context \in active_contexts, action \in ActionsOf("AskSubquestion") :
       LET question ==
               create_raw_hypertext(action.text, Started,
                   name_pointers_for_workspace(context, context.workspace_link,
                                               Started).ret).ret
       IN /\ Askable(Started, context, action)
          /\ SubWorkspaceStored(Started, question)
          /\ ~IsNone(context.parent)
          /\ AskSubquestionExecute(action, Started, context).exc = "none"
          /\ AskSubquestionExecute(action, Started, context).other_contexts[1].workspace_link
             # context.workspace_link


-----------------------------------------------------------------------------
(* The session is open and has not returned the root answer.               *)
Unanswered == ~IsNone(session) /\ ToString(session.root_answer) = ToString(None)

(* C40: between calls of act, as long as the session has not returned the  *)
(* root answer, its current_context is a member of active_contexts,        *)
(* whether the previous act returned a context or raised.                  *)
C40_CurrentContextActive ==
    Unanswered => session.current_context \in active_contexts
====
